---- MODULE Spec2Model ----
(***************************************************************************)
(* Model of the AmbientLed WebSocket session manager                       *)
(* (custom_components/ambientled/light.py): the session object             *)
(* AmbientLedWebsocket with its reader loop, its reconnector and its       *)
(* pending-response table, and the registry WebSocketManager.              *)
(*                                                                         *)
(* asyncio is single-threaded and cooperative: code between two awaits     *)
(* runs atomically, so every action below is one such stretch of code.     *)
(* Task.cancel() only requests cancellation: the CancelledError is         *)
(* delivered when the task is next scheduled (the cancel flag of a task),  *)
(* and a task cancelled before its first step never runs its body.         *)
(***************************************************************************)
EXTENDS Integers, Sequences, FiniteSets, TLC

\* ---- bounds of the model ------------------------------------------------
MaxSessions == 2
MaxEntries == 2
MaxSocks == 2
MaxCallers == 2
MaxMsgId == 2
MaxListeners == 2
MaxDevices == 2
MaxLegacyAttempts == 6

\* ---- program constants --------------------------------------------------
max_reconnect_attempts == 5
legacy_max_reconnect_attempts == 5
legacy_reconnect_delay == 5

Sessions == 1..MaxSessions
SockIds == 1..MaxSocks
Callers == 1..MaxCallers
MsgIds == 1..MaxMsgId
ListenerIds == 1..MaxListeners
DeviceIds == 1..MaxDevices
Entries == 1..MaxEntries

\* connection_key = f"{token}_{url}" (line 34): entries 1 and 2 are configured
\* with the same token and url, entry 3 with another pair, and so on
EntryKey(e) == (e + 1) \div 2
Keys == {EntryKey(e) : e \in Entries}

VARIABLES
    nextSession,    \* number of AmbientLedWebsocket objects constructed
    sessionKey,     \* self.token and self.url, as the key they form; 0 before construction
    shutdown,       \* self._shutdown
    connected,      \* self.connected
    ws,             \* self.ws: index of the session's socket, 0 for None
    socks,          \* state of each socket the session has opened
    listenTask,     \* self._listen_task and the position of _listen
    reconnectTask,  \* self.reconnect_task and the position of _reconnect
    listeners,      \* self._listeners
    messageId,      \* self._message_id
    pending,        \* self._pending_responses: id -> the caller owning the future
    connectCall,    \* the connect() call made by the creator of the session
    disconnectRet,  \* how the last disconnect() call ended for its caller
    notified,       \* the frame the running reader task handled last, and what it led to
    call,           \* the get_devices() calls
    outbox,         \* the messages each session has put on the wire: id and socket, in send order
    sendRet,        \* what the last send_command() call on each session returned
    light,          \* the AmbientLedLight entities, one per listener id
    fanout,         \* the reader's place in the listener list while a listener it awaits is suspended
    legacy,         \* the session of the legacy module, src/light.py
    connections,    \* WebSocketManager._connections: key -> session, 0 for no entry
    lock,           \* WebSocketManager._lock: the config entry holding it, 0 when free
    entry           \* the config entries: where each is, and the session it was handed

vars == <<nextSession, sessionKey, shutdown, connected, ws, socks, listenTask, reconnectTask,
          listeners, messageId, pending, connectCall, disconnectRet, notified, call,
          outbox, sendRet, light, fanout, legacy, connections, lock, entry>>

\* what a session has sent (and the legacy session), and the entities and
\* the fan-out in progress, which most steps leave alone
wireVars == <<outbox, sendRet, legacy>>
entityVars == <<light, fanout>>

\* the registry's variables, which the steps of a session leave alone
registryVars == <<connections, lock, entry>>

\* ---- frames -------------------------------------------------------------
\* A frame is what ws.recv() returns.  kind "keepalive" is an empty or
\* ping/pong text, "malformed" a text json.loads rejects, "json" an object.
\* id 0 stands for an object without "id"; data.t is "absent", "dict" (the
\* device record devs[1], or {} when devs is empty) or "list".
\* A device record has its "_id", its "online" flag (absent counts as
\* false, lines 505 and 536) and data.lighting, which may be absent.
DeviceRecords == [id : DeviceIds, online : BOOLEAN, lighting : {"absent", "on", "off"}]
\* the records of a device list that answers getDevicesIntegration: the
\* first device, online and lit
ListedRecords == {r \in DeviceRecords : r.id = 1 /\ r.online /\ r.lighting = "on"}
NoData == [t |-> "absent", devs |-> <<>>]
DictData == {[t |-> "dict", devs |-> <<r>>] : r \in DeviceRecords} \cup {[t |-> "dict", devs |-> <<>>]}
ListData == {[t |-> "list", devs |-> <<>>]} \cup {[t |-> "list", devs |-> <<r>>] : r \in DeviceRecords}
ListedData == {[t |-> "list", devs |-> <<>>]} \cup {[t |-> "list", devs |-> <<r>>] : r \in ListedRecords}
Methods == {"getDevicesIntegration", "getDevice", "getDevices", "updateParams"}
Statuses == {"absent", "true", "false"}

TextFrames ==
    {[kind |-> k, id |-> 0, method |-> "", data |-> NoData, status |-> "absent"] :
        k \in {"keepalive", "malformed"}}
ResponseFrames ==
    {[kind |-> "json", id |-> i, method |-> "getDevicesIntegration", data |-> d, status |-> st] :
        i \in MsgIds, d \in ListedData \cup {NoData}, st \in Statuses}
EventFrames ==
    {[kind |-> "json", id |-> 0, method |-> m, data |-> d, status |-> "absent"] :
        m \in Methods, d \in DictData \cup ListData \cup {NoData}}
Frames == TextFrames \cup ResponseFrames \cup EventFrames

\* events of method getDevices whose list has two records, of different
\* devices, both online and lit
PairEvents ==
    LET lit == {r \in DeviceRecords : r.online /\ r.lighting = "on"} IN
    {[kind |-> "json", id |-> 0, method |-> "getDevices",
      data |-> [t |-> "list", devs |-> <<p[1], p[2]>>], status |-> "absent"] :
        p \in {q \in lit \X lit : q[1].id # q[2].id}}

\* texts json.loads rejects although they read like an envelope: a response
\* or a device event cut short (the fields are what the text spells out)
TruncatedFrames ==
    {[kind |-> "malformed", id |-> i, method |-> "getDevicesIntegration", data |-> NoData,
      status |-> "absent"] : i \in MsgIds}
    \cup {[kind |-> "malformed", id |-> 0, method |-> "getDevice",
           data |-> [t |-> "dict", devs |-> <<r>>], status |-> "absent"] : r \in ListedRecords}

\* fault injection: every text is taken for an object
ParsedAlways(f) == TRUE

\* lines 250-268: the frame is neither empty nor a ping/pong text, and
\* json.loads accepts it
Parsed(f) == f.kind = "json"

\* ---- tasks --------------------------------------------------------------
NoTask == [pc |-> "none", cancel |-> FALSE, attempt |-> 0]
NewTask == [pc |-> "new", cancel |-> FALSE, attempt |-> 0]
\* a finished task: cancelled, returned by a shutdown check, or never run
DoneTask(t) == [pc |-> "done", cancel |-> FALSE, attempt |-> 0]

\* _reconnect returning from line 344, after the attempt that succeeded
SucceededTask(t) == [t EXCEPT !.pc = "done", !.cancel = FALSE]

\* Task.cancel(): a finished task (or None) is left alone
Cancel(t) ==
    IF t.pc \in {"none", "done", "exhausted"} THEN t ELSE [t EXCEPT !.cancel = TRUE]

TaskRunning(t) == t.pc \notin {"none", "done", "exhausted"}

\* A get_devices() call: the session it runs on, the id it sent, its future
\* (state "pending", or "done" with the envelope set as result), and how it
\* ended for its caller: the branch taken (path), whether it returned or
\* raised (kind), the list it returned (value) and the id of the envelope
\* that list was taken from (from, 0 when it comes from no envelope).
NoFrame == [kind |-> "none", id |-> 0, method |-> "", data |-> NoData, status |-> "absent"]
NoFuture == [state |-> "none", result |-> NoFrame]

\* no frame handled yet.  Of the frame the reader handled last: the socket
\* it was read from, its kind and id, the listener invocations it led to and
\* the entities that called async_write_ha_state in them
\* (late: the frame carried an id the session had sent and the table held
\* no entry for)
NoCalls == [sock |-> 0, kind |-> "none", id |-> 0, late |-> FALSE, calls |-> <<>>, wrote |-> {}]
Handled(s, f, calls, wrote) ==
    [sock |-> ws[s], kind |-> f.kind, id |-> f.id,
     late |-> f.kind = "json" /\ f.id \in 1..messageId[s] /\ pending[s][f.id] = 0,
     calls |-> calls, wrote |-> wrote]
NoCall == [pc |-> "idle", s |-> 0, id |-> 0, fut |-> NoFuture, path |-> "none",
           kind |-> "none", value |-> <<>>, from |-> 0]

\* The legacy session, src/light.py lines 33-42, before connect() is called:
\* the connected flag, its socket, its reader task, who is inside connect()
\* ("setup" for async_setup_entry, "task" for the reconnect task), the task
\* self.reconnect_task refers to and the attempt of its loop, whether the
\* backend accepts connections, and as history the connect attempts that
\* reconnect tasks have begun since the session was last connected with the
\* delay slept before the latest of them, and whether disconnect() has been
\* called.
NewLegacy ==
    [connected |-> FALSE, sock |-> "none", reader |-> "none", conn |-> "none",
     task |-> [pc |-> "none", attempt |-> 0, cancel |-> FALSE],
     reachable |-> TRUE, made |-> 0, delay |-> 0, closed |-> FALSE]

\* no fan-out in progress.  In one: the device record, the number of
\* elements of self._listeners the for loop of lines 314-316 has taken, and
\* the listener list as it was when the loop began; and, kept when the loop
\* has ended, the listeners that raised in it
NoFanOut == [rec |-> 0, idx |-> 0, start |-> <<>>, raised |-> {}]

\* the attributes async_turn_on can set besides the on/off flag (lines
\* 660-679), each as constructed ("init") or as taken from a turn_on call
\* ("set")
AttrNames == {"brightness", "hs_color", "effect"}
InitAttrs == [a \in AttrNames |-> "init"]

\* no turn_on or turn_off call yet.  As history of the latest one: a bit
\* that every call flips, what send_command returned, and whether the call
\* wrote the entity's state.
NoCmd == [flip |-> FALSE, ok |-> FALSE, wrote |-> FALSE]

\* an entity that has not been constructed
NoLight ==
    [made |-> FALSE, ws |-> 0, uid |-> 0, available |-> FALSE, is_on |-> FALSE,
     attrs |-> InitAttrs, cmd |-> NoCmd]

Created(s) == s \in 1..nextSession

\* the state of the socket self.ws refers to ("none" when self.ws is None)
WsState(s) == IF ws[s] = 0 THEN "none" ELSE socks[s][ws[s]]
NumSocks(s) == Cardinality({k \in SockIds : socks[s][k] # "unused"})

Init ==
    /\ nextSession = 1
    /\ sessionKey = [s \in Sessions |-> IF s = 1 THEN 1 ELSE 0]
    /\ shutdown = [s \in Sessions |-> FALSE]
    /\ connected = [s \in Sessions |-> FALSE]
    /\ ws = [s \in Sessions |-> 0]
    /\ socks = [s \in Sessions |-> [k \in SockIds |-> "unused"]]
    /\ listenTask = [s \in Sessions |-> NoTask]
    /\ reconnectTask = [s \in Sessions |-> NoTask]
    /\ listeners = [s \in Sessions |-> <<>>]
    /\ messageId = [s \in Sessions |-> 0]
    /\ pending = [s \in Sessions |-> [i \in MsgIds |-> 0]]
    /\ connectCall = [s \in Sessions |-> "none"]
    /\ disconnectRet = [s \in Sessions |-> "none"]
    /\ notified = [s \in Sessions |-> NoCalls]
    /\ call = [c \in Callers |-> NoCall]
    /\ outbox = [s \in Sessions |-> <<>>]
    /\ sendRet = [s \in Sessions |-> "none"]
    /\ light = [l \in ListenerIds |-> NoLight]
    /\ fanout = [s \in Sessions |-> NoFanOut]
    /\ legacy = NewLegacy
    /\ connections = [k \in Keys |-> 0]
    /\ lock = 0
    /\ entry = [e \in Entries |-> [pc |-> "unloaded", held |-> 0, added |-> FALSE]]

\* ---- connect() ----------------------------------------------------------
\* fault injection: connect() starts a reader task only when the session
\* has none yet, and otherwise only cancels the one it has
HandshakeKeepsOldReader(s) ==
    LET k == NumSocks(s) + 1 IN
    /\ k \in SockIds
    /\ socks' = [socks EXCEPT ![s][k] = "open"]
    /\ ws' = [ws EXCEPT ![s] = k]
    /\ connected' = [connected EXCEPT ![s] = TRUE]
    /\ listenTask' = [listenTask EXCEPT ![s] =
           IF @.pc = "none" THEN NewTask ELSE Cancel(@)]

\* connect(), lines 169-183: the handshake returned a socket.  The session
\* stores it, sets connected, cancels the previous reader task (always
\* finished by then, see OneTaskEach) and creates the new one.
HandshakeSucceeds(s) ==
    LET k == NumSocks(s) + 1 IN
    /\ k \in SockIds
    /\ socks' = [socks EXCEPT ![s][k] = "open"]
    /\ ws' = [ws EXCEPT ![s] = k]
    /\ connected' = [connected EXCEPT ![s] = TRUE]
    /\ listenTask' = [listenTask EXCEPT ![s] = NewTask]

\* what the handshake of lines 169-176 can raise: the classes the except
\* clauses of lines 185-205 tell apart (InvalidStatusCode by its status_code)
FailureKinds ==
    {"TimeoutError", "InvalidURI", "InvalidStatusCode401", "InvalidStatusCode500", "Exception"}

\* fault injection: every failure is raised with the text of the last
\* except clause
ConnectErrorGeneric(k) == "Connection failed"

\* lines 185-205: the text of the Exception connect() raises
ConnectError(k) ==
    CASE k = "TimeoutError" -> "Connection timeout - server not responding"
      [] k = "InvalidURI" -> "Invalid WebSocket URL - please check the URL format"
      [] k = "InvalidStatusCode401" -> "Authentication failed - please check your token"
      [] k = "InvalidStatusCode500" -> "Server error 500 - please check your configuration"
      [] OTHER -> "Connection failed"

\* lines 156-157
ShuttingDown == "WebSocket is shutting down"

\* connect(), lines 185-205: every failure of the handshake (timeout,
\* invalid URI, 401, other status, other error) sets connected = False and
\* raises to the caller of connect()
HandshakeFails(s) ==
    /\ connected' = [connected EXCEPT ![s] = FALSE]
    /\ UNCHANGED <<ws, socks, listenTask>>

\* The creator of the session calls connect() (get_connection line 51,
\* async_step_user line 26): once, on the object it has just constructed.
Connect(s) ==
    /\ Created(s)
    /\ connectCall[s] = "none"
    /\ connectCall' = [connectCall EXCEPT ![s] =
           IF shutdown[s] THEN ShuttingDown ELSE "handshake"]
    /\ UNCHANGED <<nextSession, sessionKey, shutdown, connected, ws, socks, listenTask, reconnectTask,
                   listeners, messageId, wireVars, entityVars, pending, disconnectRet, notified, call,
                   registryVars>>

ConnectOk(s) ==
    /\ connectCall[s] = "handshake"
    /\ HandshakeSucceeds(s)
    /\ connectCall' = [connectCall EXCEPT ![s] = "returned"]
    /\ UNCHANGED <<nextSession, sessionKey, shutdown, reconnectTask, listeners, messageId, wireVars, entityVars, pending,
                   disconnectRet, notified, call,
                   registryVars>>

ConnectFail(s) ==
    /\ connectCall[s] = "handshake"
    /\ HandshakeFails(s)
    /\ \E k \in FailureKinds : connectCall' = [connectCall EXCEPT ![s] = ConnectError(k)]
    /\ UNCHANGED <<nextSession, sessionKey, shutdown, reconnectTask, listeners, messageId, wireVars, entityVars, pending,
                   disconnectRet, notified, call,
                   registryVars>>

\* ---- the socket ---------------------------------------------------------
\* The peer closes the connection or the transport fails: the socket is
\* closed from now on, and recv(), send() and ping() on it raise
\* ConnectionClosed.
SocketLost(s) ==
    /\ WsState(s) = "open"
    /\ socks' = [socks EXCEPT ![s][ws[s]] = "closed"]
    /\ UNCHANGED <<nextSession, sessionKey, shutdown, connected, ws, listenTask, reconnectTask, listeners,
                   messageId, wireVars, entityVars, pending, connectCall, disconnectRet, notified, call,
                   registryVars>>

\* ---- _schedule_reconnect / _listen -------------------------------------
\* fault injection: the reader loop's exit schedules a reconnection without
\* looking at _shutdown
ScheduleReconnectAlways(shut, task) == NewTask

\* fault injection: a reconnection is scheduled only while the session has
\* never had a reconnect task
ScheduleReconnectOnce(shut, task) == IF shut \/ task.pc # "none" THEN task ELSE NewTask

\* line 243 and _schedule_reconnect(), lines 325-332: the session's
\* reconnect task after the reader loop's exit.  A task it replaces has
\* finished by then (see OneTaskEach).
ScheduleReconnect(shut, task) == IF shut THEN task ELSE NewTask

\* fault injection: the reconnection is scheduled from inside the loop, and
\* the reader goes on
ListenFinallyKeepsRunning(s) ==
    /\ connected' = [connected EXCEPT ![s] = FALSE]
    /\ reconnectTask' = [reconnectTask EXCEPT ![s] = ScheduleReconnect(shutdown[s], @)]
    /\ listenTask' = listenTask

\* the finally block of _listen, lines 240-244
ListenFinally(s) ==
    /\ connected' = [connected EXCEPT ![s] = FALSE]
    /\ reconnectTask' = [reconnectTask EXCEPT ![s] = ScheduleReconnect(shutdown[s], @)]
    /\ listenTask' = [listenTask EXCEPT ![s] = DoneTask(@)]

\* the loop condition of _listen, line 211
ListenGuard(s) == connected[s] /\ ws[s] # 0 /\ ~shutdown[s]

\* first step of the reader task: up to the first recv(), or straight to
\* the finally block when the loop condition is false
ListenStart(s) ==
    /\ listenTask[s].pc = "new"
    /\ ~listenTask[s].cancel
    /\ IF ListenGuard(s)
       THEN /\ listenTask' = [listenTask EXCEPT ![s].pc = "recv"]
            /\ UNCHANGED <<connected, reconnectTask>>
       ELSE ListenFinally(s)
    /\ UNCHANGED <<nextSession, sessionKey, shutdown, ws, socks, listeners, messageId, wireVars, entityVars, pending,
                   connectCall, disconnectRet, notified, call,
                   registryVars>>

\* a task cancelled before its first step ends without running its body
ListenNeverStarted(s) ==
    /\ listenTask[s].pc = "new"
    /\ listenTask[s].cancel
    /\ listenTask' = [listenTask EXCEPT ![s] = DoneTask(@)]
    /\ UNCHANGED <<nextSession, sessionKey, shutdown, connected, ws, socks, reconnectTask, listeners,
                   messageId, wireVars, entityVars, pending, connectCall, disconnectRet, notified, call,
                   registryVars>>

\* CancelledError at recv() or ping(): no except clause of _listen catches
\* it, the finally block runs
ListenCancelled(s) ==
    /\ listenTask[s].pc \in {"recv", "ping"}
    /\ listenTask[s].cancel
    /\ ListenFinally(s)
    /\ notified' = [notified EXCEPT ![s] = NoCalls]
    /\ UNCHANGED <<nextSession, sessionKey, shutdown, ws, socks, listeners, messageId, wireVars, entityVars, pending,
                   connectCall, disconnectRet, call,
                   registryVars>>

\* recv() raises ConnectionClosed (or another error): break, lines 232-237
ListenConnectionClosed(s) ==
    /\ listenTask[s].pc = "recv"
    /\ ~listenTask[s].cancel
    /\ WsState(s) # "open"
    /\ ListenFinally(s)
    /\ notified' = [notified EXCEPT ![s] = NoCalls]
    /\ UNCHANGED <<nextSession, sessionKey, shutdown, ws, socks, listeners, messageId, wireVars, entityVars, pending,
                   connectCall, disconnectRet, call,
                   registryVars>>

\* fault injection: a recv() that times out ends the reader loop, as a
\* failed recv() does
ListenRecvTimeoutBreaks(s) ==
    /\ listenTask[s].pc = "recv"
    /\ ~listenTask[s].cancel
    /\ ws[s] # 0 /\ connected[s] /\ ~shutdown[s]
    /\ ListenFinally(s)
    /\ notified' = [notified EXCEPT ![s] = NoCalls]
    /\ UNCHANGED <<nextSession, sessionKey, shutdown, ws, socks, listeners, messageId, wireVars, entityVars, pending,
                   connectCall, disconnectRet, call,
                   registryVars>>

\* no frame for 60 s: lines 223-227, the reader pings
ListenRecvTimeout(s) ==
    /\ listenTask[s].pc = "recv"
    /\ ~listenTask[s].cancel
    /\ ws[s] # 0 /\ connected[s] /\ ~shutdown[s]
    /\ listenTask' = [listenTask EXCEPT ![s].pc = "ping"]
    /\ UNCHANGED <<nextSession, sessionKey, shutdown, connected, ws, socks, reconnectTask, listeners,
                   messageId, wireVars, entityVars, pending, connectCall, disconnectRet, notified, call,
                   registryVars>>

\* ping() went out: back to the loop condition and recv()
ListenPingOk(s) ==
    /\ listenTask[s].pc = "ping"
    /\ ~listenTask[s].cancel
    /\ WsState(s) = "open"
    /\ IF ListenGuard(s)
       THEN /\ listenTask' = [listenTask EXCEPT ![s].pc = "recv"]
            /\ UNCHANGED <<connected, reconnectTask>>
       ELSE ListenFinally(s)
    /\ UNCHANGED <<nextSession, sessionKey, shutdown, ws, socks, listeners, messageId, wireVars, entityVars, pending,
                   connectCall, disconnectRet, notified, call,
                   registryVars>>

\* ping() raises: break, lines 229-231
ListenPingFailed(s) ==
    /\ listenTask[s].pc = "ping"
    /\ ~listenTask[s].cancel
    /\ WsState(s) # "open"
    /\ ListenFinally(s)
    /\ notified' = [notified EXCEPT ![s] = NoCalls]
    /\ UNCHANGED <<nextSession, sessionKey, shutdown, ws, socks, listeners, messageId, wireVars, entityVars, pending,
                   connectCall, disconnectRet, call,
                   registryVars>>

\* ---- _reconnect ---------------------------------------------------------
\* fault injection: the loop bound is off by one
AfterFailedAttemptOffByOne(attempt, shut) ==
    IF attempt <= max_reconnect_attempts
    THEN IF shut THEN "done" ELSE "sleep"
    ELSE "exhausted"

\* _reconnect lines 345-350: where the task goes after a failed attempt:
\* into the sleep, to the return of line 338 at the top of the next
\* iteration, or out of the loop to line 350
AfterFailedAttempt(attempt, shut) ==
    IF attempt < max_reconnect_attempts
    THEN IF shut THEN "done" ELSE "sleep"
    ELSE "exhausted"

\* _reconnect lines 336-342: the top of one loop iteration; connect() is
\* called unless the session is shutting down (line 337, and line 156)
BeginAttempt(t, shut) ==
    IF shut THEN DoneTask(t)
    ELSE [t EXCEPT !.pc = "connect", !.attempt = t.attempt + 1]

ReconnectStart(s) ==
    /\ reconnectTask[s].pc = "new"
    /\ ~reconnectTask[s].cancel
    /\ reconnectTask' = [reconnectTask EXCEPT ![s] = BeginAttempt(@, shutdown[s])]
    /\ UNCHANGED <<nextSession, sessionKey, shutdown, connected, ws, socks, listenTask, listeners,
                   messageId, wireVars, entityVars, pending, connectCall, disconnectRet, notified, call,
                   registryVars>>

\* the handshake of an attempt succeeds: lines 343-344, the task returns
ReconnectOk(s) ==
    /\ reconnectTask[s].pc = "connect"
    /\ ~reconnectTask[s].cancel
    /\ HandshakeSucceeds(s)
    /\ reconnectTask' = [reconnectTask EXCEPT ![s] = SucceededTask(@)]
    /\ UNCHANGED <<nextSession, sessionKey, shutdown, listeners, messageId, wireVars, entityVars, pending, connectCall,
                   disconnectRet, notified, call,
                   registryVars>>

\* the handshake of an attempt fails: lines 345-348
ReconnectFail(s) ==
    /\ reconnectTask[s].pc = "connect"
    /\ ~reconnectTask[s].cancel
    /\ HandshakeFails(s)
    /\ reconnectTask' = [reconnectTask EXCEPT ![s] =
           LET to == AfterFailedAttempt(@.attempt, shutdown[s]) IN
           IF to = "done" THEN DoneTask(@) ELSE [@ EXCEPT !.pc = to]]
    /\ UNCHANGED <<nextSession, sessionKey, shutdown, listeners, messageId, wireVars, entityVars, pending, connectCall,
                   disconnectRet, notified, call,
                   registryVars>>

\* asyncio.sleep(reconnect_delay) is over: the next iteration
ReconnectWake(s) ==
    /\ reconnectTask[s].pc = "sleep"
    /\ ~reconnectTask[s].cancel
    /\ reconnectTask' = [reconnectTask EXCEPT ![s] = BeginAttempt(@, shutdown[s])]
    /\ UNCHANGED <<nextSession, sessionKey, shutdown, connected, ws, socks, listenTask, listeners,
                   messageId, wireVars, entityVars, pending, connectCall, disconnectRet, notified, call,
                   registryVars>>

\* CancelledError reaches the task (before its first step, in the handshake
\* or in the sleep): nothing of _reconnect or connect() catches it
ReconnectCancelled(s) ==
    /\ reconnectTask[s].pc \in {"new", "connect", "sleep"}
    /\ reconnectTask[s].cancel
    /\ reconnectTask' = [reconnectTask EXCEPT ![s] = DoneTask(@)]
    /\ UNCHANGED <<nextSession, sessionKey, shutdown, connected, ws, socks, listenTask, listeners,
                   messageId, wireVars, entityVars, pending, connectCall, disconnectRet, notified, call,
                   registryVars>>

\* ---- _handle_message ----------------------------------------------------
\* fault injection: a frame whose data is an object is taken for an event
\* before the table is looked at
IsResponseUnlessObject(tbl, f) ==
    Parsed(f) /\ f.id # 0 /\ tbl[f.id] # 0 /\ f.data.t # "dict"

\* lines 270-273: the frame is an object whose id is a key of the table
IsResponse(tbl, f) == Parsed(f) /\ f.id # 0 /\ tbl[f.id] # 0

\* fault injection: the handler empties the table
PopPendingClearsAll(tbl, id) == [i \in MsgIds |-> 0]

\* line 276: self._pending_responses.pop(message_id)
PopPending(tbl, id) == [tbl EXCEPT ![id] = 0]

\* fault injection: the handler sets the result without looking at
\* future.done()
FutureOfAnyState(c, s, id) ==
    call[c].pc = "wait" /\ call[c].s = s /\ call[c].id = id

\* the future stored under an id is the one of the call that inserted it;
\* lines 277-278 set its result unless it is done
FutureOf(c, s, id) ==
    call[c].pc = "wait" /\ call[c].s = s /\ call[c].id = id /\ call[c].fut.state = "pending"

\* fault injection: the handler resolves the oldest entry of the table,
\* whatever id the frame carries
ResolveOldestPending(tbl, f) ==
    CHOOSE k \in MsgIds : tbl[k] # 0 /\ \A j \in MsgIds : tbl[j] # 0 => k <= j

\* lines 272-276: the key the handler pops for a response frame
ResolvedKey(tbl, f) == f.id

\* fault injection: only the first record of a list is handed to the
\* listeners
FanOutFirstOnly(ls, devs) ==
    [i \in 1..(IF devs = <<>> THEN 0 ELSE Len(ls)) |-> <<ls[i], devs[1]>>]

\* lines 293-298 and 314-316: every listener, once per device, device-major
FanOut(ls, devs) ==
    [i \in 1..(Len(devs) * Len(ls)) |->
        <<ls[((i - 1) % Len(ls)) + 1], devs[((i - 1) \div Len(ls)) + 1]>>]

\* lines 281-320: the listener invocations an event frame leads to
EventFanOut(ls, f) ==
    IF f.method = "getDevice" /\ f.data.t # "absent"
    THEN IF f.data.t = "dict" THEN FanOut(ls, f.data.devs) ELSE <<>>
    ELSE IF f.method = "getDevices" /\ f.data.t # "absent"
    THEN IF f.data.t = "list" THEN FanOut(ls, f.data.devs) ELSE <<>>
    ELSE IF f.method = "updateParams" /\ f.data.t # "absent"
    THEN <<>>
    ELSE IF f.data.t = "dict" THEN FanOut(ls, f.data.devs) ELSE <<>>

\* fault injection: the entity takes every record for its own
UpdateLightAnyId(lt, rec) ==
    IF ~lt.made THEN lt
    ELSE [lt EXCEPT !.available = rec.online,
                    !.is_on = IF rec.lighting = "absent" THEN @ ELSE rec.lighting = "on"]

\* AmbientLedLight._handle_device_update, lines 529-604, of entity lt on a
\* device record: a record of another device is ignored
UpdateLight(lt, rec) ==
    IF ~lt.made \/ rec.id # lt.uid THEN lt
    ELSE [lt EXCEPT !.available = rec.online,
                    !.is_on = IF rec.lighting = "absent" THEN @ ELSE rec.lighting = "on"]

\* the entities after a sequence of listener invocations
RECURSIVE ApplyCalls(_, _)
ApplyCalls(lts, calls) ==
    IF calls = <<>> THEN lts
    ELSE ApplyCalls([lts EXCEPT ![Head(calls)[1]] = UpdateLight(@, Head(calls)[2])],
                    Tail(calls))

\* lines 537-540 and 599-602: the entities that write their state during a
\* sequence of listener invocations, those whose availability or state
\* changes
RECURSIVE WroteIn(_, _)
WroteIn(lts, calls) ==
    IF calls = <<>> THEN {}
    ELSE LET l == Head(calls)[1]
             new == UpdateLight(lts[l], Head(calls)[2]) IN
         (IF new # lts[l] THEN {l} ELSE {})
            \cup WroteIn([lts EXCEPT ![l] = new], Tail(calls))

\* fault injection: one request at a time, the reader and the senders wait
\* until the call in flight has ended
BlockedByWaiter(calls, s) ==
    \A c \in Callers : ~(calls[c].pc = "wait" /\ calls[c].s = s)

\* What a step of the reader (line 214), of get_devices (lines 352-375) or of
\* send_command (lines 407-434) waits for on account of the calls in flight:
\* nothing.  _recv_lock (line 148) is taken by the reader alone, around
\* recv(); get_devices holds no lock while it awaits its future (line 379)
\* and the senders take none.
Unblocked(calls, s) == TRUE

\* _handle_message, lines 246-323, on frame f
HandleMessage(s, f) ==
    IF ~Parsed(f)
    THEN /\ notified' = [notified EXCEPT ![s] = Handled(s, f, <<>>, {})]
         /\ UNCHANGED <<pending, call, light>>
    ELSE IF IsResponse(pending[s], f)
    THEN LET key == ResolvedKey(pending[s], f)
             c == pending[s][key] IN
         /\ pending' = [pending EXCEPT ![s] = PopPending(@, key)]
         /\ call' = IF FutureOf(c, s, key)
                    THEN [call EXCEPT ![c].fut = [state |-> "done", result |-> f]]
                    ELSE call
         /\ notified' = [notified EXCEPT ![s] = Handled(s, f, <<>>, {})]
         /\ UNCHANGED light
    ELSE LET calls == EventFanOut(listeners[s], f) IN
         /\ notified' = [notified EXCEPT ![s] = Handled(s, f, calls, WroteIn(light, calls))]
         /\ light' = ApplyCalls(light, calls)
         /\ UNCHANGED <<pending, call>>

\* one iteration of the reader loop: recv() returns a frame, lines 214-221
ListenRecv(s, f) ==
    /\ listenTask[s].pc = "recv"
    /\ ~listenTask[s].cancel
    /\ WsState(s) = "open"
    /\ Unblocked(call, s)
    /\ HandleMessage(s, f)
    /\ IF ListenGuard(s)
       THEN UNCHANGED <<listenTask, connected, reconnectTask>>
       ELSE ListenFinally(s)
    /\ UNCHANGED <<nextSession, sessionKey, shutdown, ws, socks, listeners, messageId, wireVars,
                   connectCall, disconnectRet, fanout,
                   registryVars>>

\* One iteration of the reader loop on an event with one device record,
\* with listeners that suspend before they return (await listener(...),
\* line 316): the for loop of line 314 takes the first element of
\* self._listeners and the reader waits inside that listener.
ListenRecvSuspending(s, f) ==
    LET rec == f.data.devs[1]
        calls == <<<<listeners[s][1], rec>>>> IN
    /\ listenTask[s].pc = "recv"
    /\ ~listenTask[s].cancel
    /\ WsState(s) = "open"
    /\ ~IsResponse(pending[s], f)
    /\ EventFanOut(listeners[s], f) # <<>>
    /\ listenTask' = [listenTask EXCEPT ![s].pc = "listener"]
    /\ fanout' = [fanout EXCEPT ![s] = [rec |-> rec, idx |-> 1, start |-> listeners[s], raised |-> {}]]
    /\ notified' = [notified EXCEPT ![s] = Handled(s, f, calls, WroteIn(light, calls))]
    /\ light' = ApplyCalls(light, calls)
    /\ UNCHANGED <<nextSession, sessionKey, shutdown, connected, ws, socks, reconnectTask, listeners,
                   messageId, wireVars, pending, connectCall, disconnectRet, call,
                   registryVars>>

\* the for loop of line 314 runs over self._listeners itself: its next
\* element is the one at the position after the number of elements taken,
\* in the list as it is now; 0 when the list has no such position
NextListener(ls, fo) ==
    IF fo.idx < Len(ls) THEN ls[fo.idx + 1] ELSE 0

\* fault injection: an exception of a listener leaves the loop
RaiseEndsLoop(ls, fo, raises) == IF raises THEN 0 ELSE NextListener(ls, fo)

\* lines 315-318: the try statement lies inside the for loop, so the loop
\* goes on to the next element whether the listener returned or raised
AfterListener(ls, fo, raises) == NextListener(ls, fo)

\* The listener the reader waits in returns or raises: the loop invokes the
\* next listener and waits in it, or, at the end of the list,
\* _handle_message returns and the reader is back at the loop condition of
\* line 211.
ListenerEnds(s, raises) ==
    LET l == AfterListener(listeners[s], fanout[s], raises)
        calls == <<<<l, fanout[s].rec>>>>
        ended == notified[s].calls[Len(notified[s].calls)][1]
        raised == fanout[s].raised \cup (IF raises THEN {ended} ELSE {}) IN
    /\ listenTask[s].pc = "listener"
    /\ ~listenTask[s].cancel
    /\ IF l # 0
       THEN /\ fanout' = [fanout EXCEPT ![s].idx = @ + 1, ![s].raised = raised]
            /\ notified' = [notified EXCEPT ![s].calls = @ \o calls,
                                              ![s].wrote = @ \cup WroteIn(light, calls)]
            /\ light' = ApplyCalls(light, calls)
            /\ UNCHANGED <<listenTask, connected, reconnectTask>>
       ELSE /\ fanout' = [fanout EXCEPT ![s] = [NoFanOut EXCEPT !.raised = raised]]
            /\ UNCHANGED <<notified, light>>
            /\ IF ListenGuard(s)
               THEN /\ listenTask' = [listenTask EXCEPT ![s].pc = "recv"]
                    /\ UNCHANGED <<connected, reconnectTask>>
               ELSE ListenFinally(s)
    /\ UNCHANGED <<nextSession, sessionKey, shutdown, ws, socks, listeners,
                   messageId, wireVars, pending, connectCall, disconnectRet, call,
                   registryVars>>

\* the listener returns, line 316
ListenerReturns(s) == ListenerEnds(s, FALSE)

\* the listener raises an Exception, lines 317-318
ListenerRaises(s) == ListenerEnds(s, TRUE)

\* CancelledError reaches the reader inside a listener: except Exception
\* (lines 317, 322, 235, 238) does not catch it, the finally block runs
ListenCancelledInListener(s) ==
    /\ listenTask[s].pc = "listener"
    /\ listenTask[s].cancel
    /\ ListenFinally(s)
    /\ notified' = [notified EXCEPT ![s] = NoCalls]
    /\ fanout' = [fanout EXCEPT ![s] = NoFanOut]
    /\ UNCHANGED <<nextSession, sessionKey, shutdown, ws, socks, listeners, messageId, wireVars, light,
                   pending, connectCall, disconnectRet, call,
                   registryVars>>

\* ---- get_devices --------------------------------------------------------
\* fault injection: the counter is only set by the first message
NextIdStuck(n) == IF n = 0 THEN 1 ELSE n

\* lines 360-361 and 415-416: the id of the next outbound message
NextId(n) == n + 1

\* a message with id n and method m that went out on the session's socket
Sent(s, n, m) == [id |-> n, method |-> m, sock |-> ws[s]]

\* how a get_devices() call ends for its caller
Returned(cl, path, value) ==
    [cl EXCEPT !.pc = "ret", !.fut = NoFuture, !.path = path, !.kind = "return",
               !.value = value]

\* get_devices lines 352-375: the guard, the id, the table entry, the send.
\* ws.send() on a socket that is no longer open raises, which lines 403-405
\* turn into an empty list (the table entry stays).
GetDevices(c, s) ==
    /\ Created(s)
    /\ UNCHANGED legacy
    /\ call[c].pc \in {"idle", "ret"}
    /\ Unblocked(call, s)
    /\ IF ~connected[s] \/ ws[s] = 0
       THEN /\ call' = [call EXCEPT ![c] =
                   Returned([NoCall EXCEPT !.s = s], "not_connected", <<>>)]
            /\ UNCHANGED <<messageId, wireVars, entityVars, pending>>
       ELSE LET id == NextId(messageId[s])
                cl == [NoCall EXCEPT !.s = s, !.id = id,
                                     !.fut = [state |-> "pending", result |-> NoFrame]] IN
            /\ id \in MsgIds
            /\ messageId' = [messageId EXCEPT ![s] = id]
            /\ pending' = [pending EXCEPT ![s][id] = c]
            /\ outbox' = IF WsState(s) = "open"
                         THEN [outbox EXCEPT ![s] =
                                  Append(@, Sent(s, id, "getDevicesIntegration"))]
                         ELSE outbox
            /\ UNCHANGED <<sendRet, entityVars>>
            /\ call' = [call EXCEPT ![c] =
                   IF WsState(s) = "open"
                   THEN [cl EXCEPT !.pc = "wait"]
                   ELSE Returned(cl, "send_error", <<>>)]
    /\ UNCHANGED <<nextSession, sessionKey, shutdown, connected, ws, socks, listenTask, reconnectTask,
                   listeners, connectCall, disconnectRet, notified,
                   registryVars>>

\* fault injection: the timeout branch forgets to pop its entry
TimeoutKeepsEntry(tbl, id) == tbl

\* line 382: self._pending_responses.pop(message_id, None)
TimeoutCleanup(tbl, id) == [tbl EXCEPT ![id] = 0]

\* lines 380-384: how the call ends when wait_for times out
TimeoutResult(cl) == Returned(cl, "timeout", <<>>)

\* line 379: no result within 10 s.  The timer of wait_for cancels the
\* future; get_devices goes on when its task is next scheduled, and the
\* reader may handle a frame in between.
GetDevicesTimerFires(c) ==
    /\ call[c].pc = "wait"
    /\ call[c].fut.state = "pending"
    /\ call' = [call EXCEPT ![c].fut.state = "cancelled"]
    /\ UNCHANGED <<nextSession, sessionKey, shutdown, connected, ws, socks, listenTask, reconnectTask,
                   listeners, messageId, wireVars, entityVars, pending, connectCall, disconnectRet, notified,
                   registryVars>>

\* lines 380-384: wait_for raises TimeoutError into get_devices
GetDevicesTimeout(c) ==
    /\ call[c].pc = "wait"
    /\ call[c].fut.state = "cancelled"
    /\ pending' = [pending EXCEPT ![call[c].s] = TimeoutCleanup(@, call[c].id)]
    /\ call' = [call EXCEPT ![c] = TimeoutResult(@)]
    /\ UNCHANGED <<nextSession, sessionKey, shutdown, connected, ws, socks, listenTask, reconnectTask,
                   listeners, messageId, wireVars, entityVars, connectCall, disconnectRet, notified,
                   registryVars>>

\* lines 386-401: what get_devices makes of the envelope it was resolved with
ResponseResult(cl) ==
    LET f == cl.fut.result IN
    IF f.status = "false" THEN Returned(cl, "backend_error", <<>>)
    ELSE IF f.data.t = "absent" THEN Returned(cl, "ok", <<>>)
    ELSE IF f.data.t # "list" THEN Returned(cl, "not_list", <<>>)
    ELSE [Returned(cl, "ok", f.data.devs) EXCEPT !.from = f.id]

GetDevicesReturn(c) ==
    /\ call[c].pc = "wait"
    /\ call[c].fut.state = "done"
    /\ call' = [call EXCEPT ![c] = ResponseResult(@)]
    /\ UNCHANGED <<nextSession, sessionKey, shutdown, connected, ws, socks, listenTask, reconnectTask,
                   listeners, messageId, wireVars, entityVars, pending, connectCall, disconnectRet, notified,
                   registryVars>>

\* ---- send_command -------------------------------------------------------
\* send_command, lines 407-441.  Nothing is sent and False is returned when
\* the session is not connected.  Otherwise the call takes the next id and
\* writes the message: True when the write went through, False when the
\* write timed out after 5 s (written = FALSE) or raised because the socket
\* is closed.
SendCommandCall(s, written) ==
    /\ Created(s)
    /\ UNCHANGED legacy
    /\ Unblocked(call, s)
    /\ IF ~connected[s] \/ ws[s] = 0
       THEN /\ sendRet' = [sendRet EXCEPT ![s] = "false"]
            /\ UNCHANGED <<messageId, outbox>>
       ELSE LET id == NextId(messageId[s])
                ok == WsState(s) = "open" /\ written IN
            /\ id \in MsgIds
            /\ messageId' = [messageId EXCEPT ![s] = id]
            /\ outbox' = IF ok THEN [outbox EXCEPT ![s] = Append(@, Sent(s, id, "updateParams"))]
                         ELSE outbox
            /\ sendRet' = [sendRet EXCEPT ![s] = IF ok THEN "true" ELSE "false"]

\* send_command called by another user than an entity
SendCommand(s, written) ==
    /\ SendCommandCall(s, written)
    /\ UNCHANGED <<nextSession, sessionKey, shutdown, connected, ws, socks, listenTask, reconnectTask,
                   listeners, pending, connectCall, disconnectRet, notified, call,
                   entityVars, registryVars>>

\* what send_command returns, lines 409-411 and 434-441
CommandSent(s, written) ==
    connected[s] /\ ws[s] # 0 /\ WsState(s) = "open" /\ written

\* fault injection: the entity takes the command for done whatever
\* send_command returned
AfterCommandOptimistic(lt, on, kw, ok) ==
    [lt EXCEPT !.is_on = on,
               !.attrs = [a \in AttrNames |-> IF a \in kw THEN "set" ELSE @[a]],
               !.cmd = [flip |-> ~@.flip, ok |-> ok, wrote |-> TRUE]]

\* async_turn_on lines 685-696 and async_turn_off lines 704-709: the entity
\* after send_command has returned ok, for a call that sets the flag to on
\* and the attributes kw
AfterCommand(lt, on, kw, ok) ==
    IF ok
    THEN [lt EXCEPT !.is_on = on,
                    !.attrs = [a \in AttrNames |-> IF a \in kw THEN "set" ELSE @[a]],
                    !.cmd = [flip |-> ~@.flip, ok |-> TRUE, wrote |-> TRUE]]
    ELSE [lt EXCEPT !.cmd = [flip |-> ~@.flip, ok |-> FALSE, wrote |-> FALSE]]

\* a turn_on or turn_off call of entity l: send_command on its session, then
\* the entity's own state
LightCommand(l, on, kw, written) ==
    /\ light[l].made
    /\ SendCommandCall(light[l].ws, written)
    /\ light' = [light EXCEPT ![l] =
           AfterCommand(@, on, kw, CommandSent(light[l].ws, written))]
    /\ UNCHANGED <<nextSession, sessionKey, shutdown, connected, ws, socks, listenTask, reconnectTask,
                   listeners, pending, connectCall, disconnectRet, notified, call,
                   fanout, registryVars>>

\* async_turn_on, lines 656-698, with the keyword arguments kw
TurnOn(l, kw, written) == LightCommand(l, TRUE, kw, written)

\* async_turn_off, lines 700-709
TurnOff(l, written) == LightCommand(l, FALSE, {}, written)

\* ---- the legacy session, src/light.py -----------------------------------
\* the variables of the component under custom_components/
currentVars ==
    <<nextSession, sessionKey, shutdown, connected, ws, socks, listenTask, reconnectTask, listeners,
      messageId, pending, connectCall, disconnectRet, notified, call, outbox, sendRet, entityVars,
      registryVars>>

\* _schedule_reconnect, src/light.py lines 113-118: the task
\* self.reconnect_task refers to is cancelled and a new task replaces it,
\* whose loop starts at attempt 0 with its first sleep.  When the caller is
\* that task itself (connect() failed inside _reconnect), the cancellation
\* reaches it at the sleep of its next attempt, or it has left the loop, and
\* except Exception (line 130) does not catch CancelledError: it makes no
\* further attempt.
LegacyScheduleReconnect(task) == [pc |-> "sleep", attempt |-> 0, cancel |-> FALSE]

\* the backend stops or resumes accepting connections
LegacyBackend(up) ==
    /\ legacy.reachable # up
    /\ legacy' = [legacy EXCEPT !.reachable = up]
    /\ UNCHANGED currentVars

\* async_setup_entry, src/light.py line 25: connect() up to the handshake
LegacyConnect ==
    /\ legacy = [NewLegacy EXCEPT !.reachable = legacy.reachable]
    /\ legacy' = [legacy EXCEPT !.conn = "setup"]
    /\ UNCHANGED currentVars

\* connect(), src/light.py lines 48-61: the handshake succeeds, the reader
\* task is created; the reconnect task that called returns (lines 127-129)
LegacyConnectOk ==
    /\ legacy.conn # "none"
    /\ legacy.reachable
    /\ ~(legacy.conn = "task" /\ legacy.task.cancel)
    /\ legacy' = [legacy EXCEPT !.connected = TRUE, !.sock = "open", !.reader = "recv",
                                !.conn = "none", !.made = 0, !.delay = 0,
                                !.task.pc = IF legacy.conn = "task" THEN "done" ELSE @]
    /\ UNCHANGED currentVars

\* connect(), src/light.py lines 63-68: the handshake fails or times out,
\* the error is logged and a reconnection is scheduled
LegacyConnectFail ==
    /\ legacy.conn # "none"
    /\ ~(legacy.conn = "task" /\ legacy.task.cancel)
    /\ legacy' = [legacy EXCEPT !.conn = "none", !.task = LegacyScheduleReconnect(@)]
    /\ UNCHANGED currentVars

\* _reconnect, src/light.py lines 122-126: the sleep of
\* reconnect_delay * 2 ** attempt ends and the task calls connect()
LegacyReconnectWake ==
    /\ legacy.task.pc = "sleep"
    /\ ~legacy.task.cancel
    /\ legacy.made < MaxLegacyAttempts
    /\ legacy' = [legacy EXCEPT !.task.pc = "connect", !.conn = "task",
                                !.made = @ + 1,
                                !.delay = legacy_reconnect_delay * 2 ^ legacy.task.attempt]
    /\ UNCHANGED currentVars

\* CancelledError reaches the reconnect task in its sleep or inside
\* connect(): no except clause catches it (lines 63, 66 and 130 catch
\* Exception), the task ends
LegacyReconnectCancelled ==
    /\ legacy.task.pc \in {"sleep", "connect"}
    /\ legacy.task.cancel
    /\ legacy' = [legacy EXCEPT !.task = [pc |-> "done", attempt |-> 0, cancel |-> FALSE],
                                !.conn = "none"]
    /\ UNCHANGED currentVars

\* the backend or the network closes the socket
LegacySocketLost ==
    /\ legacy.sock = "open"
    /\ legacy' = [legacy EXCEPT !.sock = "closed"]
    /\ UNCHANGED currentVars

\* _listen, src/light.py lines 70-91: recv() raises on the closed socket,
\* the loop breaks and the finally block clears the flag and schedules a
\* reconnection
LegacyListenExit ==
    /\ legacy.reader = "recv"
    /\ legacy.sock = "closed"
    /\ legacy' = [legacy EXCEPT !.connected = FALSE, !.reader = "done",
                                !.task = LegacyScheduleReconnect(@)]
    /\ UNCHANGED currentVars

\* disconnect(), src/light.py lines 181-187
LegacyDisconnect ==
    /\ legacy # [NewLegacy EXCEPT !.reachable = legacy.reachable]
    /\ legacy.connected \/ legacy.sock = "open" \/ legacy.task.pc \in {"sleep", "connect"}
    /\ legacy' = [legacy EXCEPT !.connected = FALSE, !.closed = TRUE,
                                !.task.cancel = legacy.task.pc \in {"sleep", "connect"},
                                !.sock = IF @ = "open" THEN "closed" ELSE @]
    /\ UNCHANGED currentVars

NextLegacy ==
    \/ \E up \in BOOLEAN : LegacyBackend(up)
    \/ LegacyConnect \/ LegacyConnectOk \/ LegacyConnectFail
    \/ LegacyReconnectWake \/ LegacyReconnectCancelled
    \/ LegacySocketLost \/ LegacyListenExit
    \/ LegacyDisconnect

SpecLegacy == Init /\ [][NextLegacy]_vars

\* ---- listeners ----------------------------------------------------------
InSeq(x, sq) == \E i \in 1..Len(sq) : sq[i] = x
Without(sq, x) == SelectSeq(sq, LAMBDA y : y # x)

\* add_listener, lines 443-446
AddListener(s, l) ==
    /\ Created(s)
    /\ ~InSeq(l, listeners[s])
    /\ listeners' = [listeners EXCEPT ![s] = Append(@, l)]
    /\ UNCHANGED <<nextSession, sessionKey, shutdown, connected, ws, socks, listenTask, reconnectTask,
                   messageId, wireVars, entityVars, pending, connectCall, disconnectRet, notified, call,
                   registryVars>>

\* remove_listener, lines 448-451
RemoveListener(s, l) ==
    /\ Created(s)
    /\ InSeq(l, listeners[s])
    /\ listeners' = [listeners EXCEPT ![s] = Without(@, l)]
    /\ UNCHANGED <<nextSession, sessionKey, shutdown, connected, ws, socks, listenTask, reconnectTask,
                   messageId, wireVars, entityVars, pending, connectCall, disconnectRet, notified, call,
                   registryVars>>

\* ---- AmbientLedLight ----------------------------------------------------
\* AmbientLedLight.__init__, lines 475-527, on a record of the device list
\* and the session get_connection returned (async_setup_entry lines
\* 103-107): the entity takes its id and state from the record and
\* subscribes to the session
NewLight(s, rec) ==
    [made |-> TRUE, ws |-> s, uid |-> rec.id, available |-> rec.online,
     is_on |-> rec.lighting = "on", attrs |-> InitAttrs, cmd |-> NoCmd]

CreateLight(l, s, rec) ==
    /\ Created(s)
    /\ connectCall[s] = "returned"
    /\ ~light[l].made
    /\ light' = [light EXCEPT ![l] = NewLight(s, rec)]
    /\ UNCHANGED fanout
    /\ listeners' = [listeners EXCEPT ![s] =
           IF InSeq(l, @) THEN @ ELSE Append(@, l)]
    /\ UNCHANGED <<nextSession, sessionKey, shutdown, connected, ws, socks, listenTask, reconnectTask,
                   messageId, wireVars, pending, connectCall, disconnectRet, notified, call,
                   registryVars>>

\* async_will_remove_from_hass, lines 716-718: the entity unsubscribes and
\* is gone
RemoveLight(l) ==
    /\ light[l].made
    /\ listeners' = [listeners EXCEPT ![light[l].ws] = Without(@, l)]
    /\ light' = [light EXCEPT ![l] = NoLight]
    /\ UNCHANGED fanout
    /\ UNCHANGED <<nextSession, sessionKey, shutdown, connected, ws, socks, listenTask, reconnectTask,
                   messageId, wireVars, pending, connectCall, disconnectRet, notified, call,
                   registryVars>>

\* fault injection: the entity reports what its device reported, whatever
\* the state of the session
AvailableIgnoresSession(l) == light[l].made /\ light[l].available

\* AmbientLedLight.available, lines 646-649
Available(l) == light[l].made /\ light[l].available /\ connected[light[l].ws]

\* ---- disconnect ---------------------------------------------------------
\* fault injection: disconnect() leaves the socket as it is
SocketLeftOpen(st) == st

\* ws.close(): afterwards the socket is not open, whether close() raised or not
CloseSocket(st) == IF st = "open" THEN "closed" ELSE st

\* fault injection: an exception of ws.close() reaches the caller
DisconnectOutcomePropagates(closeRaises) == IF closeRaises THEN "raised" ELSE "returned"

\* lines 468-472: an exception of ws.close() is logged, not raised
DisconnectOutcome(closeRaises) == "returned"

\* line 465
ClearListeners(ls) == <<>>

\* fault injection: disconnect() leaves the tasks running
LeftRunningOnDisconnect(t) == t

\* lines 459-462: what disconnect() does to the session's two tasks
CancelOnDisconnect(t) == Cancel(t)

\* the fields of a session that disconnect() writes
SessionFields(s) ==
    [shutdown |-> shutdown[s], connected |-> connected[s],
     reconnectTask |-> reconnectTask[s], listenTask |-> listenTask[s],
     listeners |-> listeners[s], socks |-> socks[s]]

\* disconnect(), lines 453-472: the fields as the call leaves them
AfterDisconnect(s) ==
    [shutdown |-> TRUE, connected |-> FALSE,
     reconnectTask |-> CancelOnDisconnect(reconnectTask[s]),
     listenTask |-> CancelOnDisconnect(listenTask[s]),
     listeners |-> ClearListeners(listeners[s]),
     socks |-> IF ws[s] # 0 THEN [socks[s] EXCEPT ![ws[s]] = CloseSocket(@)] ELSE socks[s]]

\* disconnect() on every session of the set S
DisconnectEffect(S, closeRaises) ==
    LET after(s) == IF s \in S THEN AfterDisconnect(s) ELSE SessionFields(s) IN
    /\ shutdown' = [s \in Sessions |-> after(s).shutdown]
    /\ connected' = [s \in Sessions |-> after(s).connected]
    /\ reconnectTask' = [s \in Sessions |-> after(s).reconnectTask]
    /\ listenTask' = [s \in Sessions |-> after(s).listenTask]
    /\ listeners' = [s \in Sessions |-> after(s).listeners]
    /\ socks' = [s \in Sessions |-> after(s).socks]
    /\ disconnectRet' = [s \in Sessions |->
           IF s \in S THEN DisconnectOutcome(closeRaises) ELSE disconnectRet[s]]

\* disconnect() called by the owner of a session that is not inside its
\* own connect() call
Disconnect(s, closeRaises) ==
    /\ Created(s)
    /\ connectCall[s] # "handshake"
    /\ DisconnectEffect({s}, closeRaises)
    /\ UNCHANGED <<nextSession, sessionKey, ws, messageId, wireVars, entityVars, pending, connectCall, notified, call,
                   registryVars>>

\* ---- one session and its users -----------------------------------------
\* the steps of the session's own tasks and of its socket
SessionStep(s) ==
    \/ ListenStart(s) \/ ListenNeverStarted(s) \/ ListenCancelled(s)
    \/ ListenConnectionClosed(s) \/ ListenRecvTimeout(s) \/ ListenPingOk(s)
    \/ ListenPingFailed(s)
    \/ ReconnectStart(s) \/ ReconnectOk(s) \/ ReconnectFail(s) \/ ReconnectWake(s)
    \/ ReconnectCancelled(s)
    \/ SocketLost(s)

\* the owner of a session: connect() once, disconnect() at any time after
OwnerStep(s) ==
    \/ Connect(s) \/ ConnectOk(s) \/ ConnectFail(s)
    \/ \E r \in BOOLEAN : Disconnect(s, r)

\* A session, its owner, its listeners and the frames that are no responses
Next ==
    \E s \in Sessions :
        \/ OwnerStep(s)
        \/ SessionStep(s)
        \/ \E f \in TextFrames \cup EventFrames \cup PairEvents : ListenRecv(s, f)
        \/ \E l \in ListenerIds : AddListener(s, l) \/ RemoveListener(s, l)

Spec == Init /\ [][Next]_vars

\* the events that lead to listener invocations with one device record:
\* method getDevice with any record as data, and method getDevices with a
\* list or another method with an object, of a device that is online and lit
RecordEvents ==
    {f \in EventFrames :
        /\ f.data.devs # <<>>
        /\ \/ f.method = "getDevice" /\ f.data.t = "dict"
           \/ /\ f.data.devs[1].online /\ f.data.devs[1].lighting = "on"
              /\ \/ f.method = "getDevicesIntegration" /\ f.data.t = "dict"
                 \/ f.method = "getDevices" /\ f.data.t = "list"}

\* A session that is never disconnected by its owner: its reader, the
\* loss of its socket and the reconnection, the entities subscribed to it
\* and the device events it receives
NextLights ==
    \E s \in Sessions :
        \/ Connect(s) \/ ConnectOk(s) \/ ConnectFail(s)
        \/ ListenStart(s) \/ ListenConnectionClosed(s)
        \/ ReconnectStart(s) \/ ReconnectOk(s) \/ ReconnectFail(s) \/ ReconnectWake(s)
        \/ SocketLost(s)
        \/ \E f \in TextFrames \cup RecordEvents : ListenRecv(s, f)
        \/ \E l \in ListenerIds : \E rec \in DeviceRecords : CreateLight(l, s, rec)
        \/ \E l \in ListenerIds : light[l].ws = s /\ RemoveLight(l)

SpecLights == Init /\ [][NextLights]_vars

\* A session, its owner, concurrent get_devices() calls and response frames
NextRequests ==
    \E s \in Sessions :
        \/ OwnerStep(s)
        \/ SessionStep(s)
        \/ \E f \in TextFrames \cup ResponseFrames : ListenRecv(s, f)
        \/ \E c \in Callers : GetDevices(c, s)
        \/ \E c \in Callers : GetDevicesTimerFires(c) \/ GetDevicesTimeout(c) \/ GetDevicesReturn(c)

SpecRequests == Init /\ [][NextRequests]_vars

\* the events that carry a record of the first device, or an empty object,
\* under method getDevice
DeviceEvents ==
    {f \in EventFrames :
        /\ f.method = "getDevice" /\ f.data.t = "dict"
        /\ f.data.devs # <<>> => f.data.devs[1].id = 1}

\* frames that carry an id and read like a device event: a record of the
\* first device as the object of method getDevice or in the list of method
\* getDevices
IdEvents ==
    {[kind |-> "json", id |-> i, method |-> d[1], data |-> [t |-> d[2], devs |-> <<r>>],
      status |-> "absent"] :
        i \in MsgIds, d \in {<<"getDevice", "dict">>, <<"getDevices", "list">>},
        r \in ListedRecords}

\* A session that connects and keeps its connection: its reader with text
\* frames, responses and device events, concurrent get_devices() calls and
\* its listeners
NextFrames ==
    \E s \in Sessions :
        \/ Connect(s) \/ ConnectOk(s) \/ ConnectFail(s)
        \/ ListenStart(s)
        \/ \E f \in TextFrames \cup TruncatedFrames \cup ResponseFrames \cup DeviceEvents
                    \cup IdEvents :
              ListenRecv(s, f)
        \/ \E c \in Callers : GetDevices(c, s)
        \/ \E c \in Callers : GetDevicesTimerFires(c) \/ GetDevicesTimeout(c) \/ GetDevicesReturn(c)
        \/ \E l \in ListenerIds : AddListener(s, l) \/ RemoveListener(s, l)

SpecFrames == Init /\ [][NextFrames]_vars

\* A session that connects and keeps its connection, its reader with text
\* frames and responses, concurrent get_devices() calls and send_command()
\* calls
NextStalled ==
    \E s \in Sessions :
        \/ Connect(s) \/ ConnectOk(s) \/ ConnectFail(s)
        \/ ListenStart(s)
        \/ \E f \in TextFrames \cup ResponseFrames : ListenRecv(s, f)
        \/ \E c \in Callers : GetDevices(c, s)
        \/ \E c \in Callers : GetDevicesTimerFires(c) \/ GetDevicesTimeout(c) \/ GetDevicesReturn(c)
        \/ \E w \in BOOLEAN : SendCommand(s, w)

SpecStalled == Init /\ [][NextStalled]_vars

\* the keyword arguments of the turn_on calls: none, a brightness, or a
\* brightness, a colour and an effect
TurnOnArgs == {{}, {"brightness"}, AttrNames}

\* A session that loses and regains its connection, its entities, and the
\* turn_on and turn_off calls of the entities
NextCommands ==
    \E s \in Sessions :
        \/ Connect(s) \/ ConnectOk(s) \/ ConnectFail(s)
        \/ ListenStart(s) \/ ListenConnectionClosed(s)
        \/ ReconnectStart(s) \/ ReconnectOk(s) \/ ReconnectFail(s) \/ ReconnectWake(s)
        \/ SocketLost(s)
        \/ \E l \in ListenerIds : \E rec \in ListedRecords : CreateLight(l, s, rec)
        \/ \E l \in ListenerIds : \E w \in BOOLEAN : \E kw \in TurnOnArgs :
              light[l].ws = s /\ TurnOn(l, kw, w)
        \/ \E l \in ListenerIds : \E w \in BOOLEAN : light[l].ws = s /\ TurnOff(l, w)

SpecCommands == Init /\ [][NextCommands]_vars

\* A session that keeps its connection, listeners that register, and device
\* events handled by listeners that suspend and then return or raise
NextRaise ==
    \E s \in Sessions :
        \/ Connect(s) \/ ConnectOk(s) \/ ConnectFail(s)
        \/ ListenStart(s)
        \/ \E f \in DeviceEvents : ListenRecvSuspending(s, f)
        \/ ListenerReturns(s) \/ ListenerRaises(s)
        \/ \E l \in ListenerIds : \E rec \in DeviceRecords : CreateLight(l, s, rec)
        \/ \E l \in ListenerIds : AddListener(s, l)

SpecRaise == Init /\ [][NextRaise]_vars

\* ---- the configuration form, config_flow.py ------------------------------
\* async_step_user lines 26-32: connect() has returned and get_devices() is
\* called.  No suspension point lies between the handshake's return (line
\* 169 of light.py) and the send of get_devices (line 375), so the reader
\* task has not run yet; ws.connected is true at line 29.
ProbeGetDevices(s, c) ==
    /\ connectCall[s] = "returned"
    /\ listenTask[s] = NewTask
    /\ \A d \in Callers : call[d].pc = "idle"
    /\ GetDevices(c, s)

\* the get_devices() call of the probe on session s has returned
ProbeListed(s, c) == call[c].s = s /\ call[c].pc = "ret"

\* async_step_user lines 36-37: the list is not empty, the probe disconnects
\* its session
ProbeDisconnect(s) ==
    /\ \E c \in Callers : ProbeListed(s, c) /\ call[c].value # <<>>
    /\ disconnectRet[s] = "none"
    /\ \E r \in BOOLEAN : Disconnect(s, r)

\* async_step_user lines 20-64: how the probe on session s has ended, "none"
\* while it has not.  An exception of connect() ends it with an error picked
\* by the text (lines 40-64), an empty list with no_devices (lines 34-35), a
\* list of devices with the entry created once disconnect() has returned.
ProbeOutcome(s) ==
    IF connectCall[s] \notin {"none", "handshake", "returned"} THEN "error"
    ELSE IF \E c \in Callers : ProbeListed(s, c) /\ call[c].value = <<>> THEN "no_devices"
    ELSE IF /\ \E c \in Callers : ProbeListed(s, c) /\ call[c].value # <<>>
            /\ disconnectRet[s] = "returned"
         THEN "create_entry"
    ELSE "none"

\* The probe of the configuration form on a session of its own, the
\* session's tasks and socket, and the frames of the backend
NextProbe ==
    \E s \in Sessions :
        \/ Connect(s) \/ ConnectOk(s) \/ ConnectFail(s)
        \/ \E c \in Callers : ProbeGetDevices(s, c)
        \/ \E c \in Callers : GetDevicesTimerFires(c) \/ GetDevicesTimeout(c) \/ GetDevicesReturn(c)
        \/ ProbeDisconnect(s)
        \/ SessionStep(s)
        \/ \E f \in TextFrames \cup ResponseFrames : ListenRecv(s, f)

SpecProbe == Init /\ [][NextProbe]_vars

\* A session, its owner and its listeners, which suspend before they return,
\* and device events
NextFanOut ==
    \E s \in Sessions :
        \/ OwnerStep(s)
        \/ ListenStart(s) \/ ListenNeverStarted(s) \/ ListenCancelled(s)
        \/ \E f \in DeviceEvents : ListenRecvSuspending(s, f)
        \/ ListenerReturns(s) \/ ListenCancelledInListener(s)
        \/ \E l \in ListenerIds : AddListener(s, l) \/ RemoveListener(s, l)

SpecFanOut == Init /\ [][NextFanOut]_vars

\* A session, its owner, and the calls that send: get_devices() calls, which
\* no frame answers, and send_command() calls
NextOutbound ==
    \E s \in Sessions :
        \/ OwnerStep(s)
        \/ SessionStep(s)
        \/ \E f \in TextFrames : ListenRecv(s, f)
        \/ \E c \in Callers : GetDevices(c, s)
        \/ \E c \in Callers : GetDevicesTimerFires(c) \/ GetDevicesTimeout(c)
        \/ \E w \in BOOLEAN : SendCommand(s, w)

SpecOutbound == Init /\ [][NextOutbound]_vars

\* ---- WebSocketManager ---------------------------------------------------
\* the session registered under a key when get_connection has to create
\* one: the next object constructed (lines 49-50)
Registered(conns, k, s) == [conns EXCEPT ![k] = s]

\* del self._connections[connection_key] (lines 45 and 62)
Unregistered(conns, k) == [conns EXCEPT ![k] = 0]

\* fault injection: any registered session is handed out again
ReusableAlways(s) == TRUE

\* line 39: the registered session is handed out again as it is
Reusable(s) == connected[s]

\* fault injection: the registry's operations do not wait for the lock
LockIgnored == TRUE

\* async with self._lock (lines 36, 58 and 67): the caller goes on when no
\* one holds the lock
LockFree == lock = 0

\* async_setup_entry, lines 95-120, once get_connection has returned
\* session s: the entry is set up, with the entities of the device list
\* added (added) or, when get_devices gave no valid device, with none
SetupDone(s, a) == [pc |-> "loaded", held |-> s, added |-> a]

\* fault injection: the failure of get_connection leaves async_setup_entry
\* as an exception
SetupFailedRaises == [pc |-> "setup_raised", held |-> 0, added |-> FALSE]

\* async_setup_entry, lines 89-93: get_connection raised; the error is
\* logged and the function returns, before get_devices and before any
\* entity is constructed
SetupFailed == [pc |-> "setup_failed", held |-> 0, added |-> FALSE]

\* async_setup_entry line 90 calls get_connection, lines 32-52.  With the
\* lock free the call runs to its first await that can take time: it either
\* returns the registered session, or (after disconnecting and deleting a
\* registered session that is not connected) constructs a session, registers
\* it and waits in connect() for the handshake, holding the lock.
GetConnection(e) ==
    LET k == EntryKey(e)
        old == connections[k]
        new == nextSession + 1 IN
    /\ entry[e].pc = "unloaded"
    /\ LockFree
    /\ IF old # 0 /\ Reusable(old)
       THEN /\ \E a \in BOOLEAN : entry' = [entry EXCEPT ![e] = SetupDone(old, a)]
            /\ UNCHANGED <<nextSession, sessionKey, shutdown, connected, reconnectTask,
                           listenTask, listeners, socks, disconnectRet, connections, lock,
                           connectCall>>
       ELSE /\ new \in Sessions
            /\ IF old # 0
               THEN \E r \in BOOLEAN : DisconnectEffect({old}, r)
               ELSE UNCHANGED <<shutdown, connected, reconnectTask, listenTask, listeners,
                                socks, disconnectRet>>
            /\ nextSession' = new
            /\ sessionKey' = [sessionKey EXCEPT ![new] = k]
            /\ connections' = Registered(connections, k, new)
            /\ connectCall' = [connectCall EXCEPT ![new] = "handshake"]
            /\ lock' = e
            /\ entry' = [entry EXCEPT ![e] = [pc |-> "connecting", held |-> new, added |-> FALSE]]
    /\ UNCHANGED <<ws, messageId, wireVars, entityVars, pending, notified, call>>

\* the handshake of the new session succeeds: line 52 returns it
GetConnectionOk(e) ==
    LET s == entry[e].held IN
    /\ entry[e].pc = "connecting"
    /\ HandshakeSucceeds(s)
    /\ connectCall' = [connectCall EXCEPT ![s] = "returned"]
    /\ lock' = 0
    /\ \E a \in BOOLEAN : entry' = [entry EXCEPT ![e] = SetupDone(s, a)]
    /\ UNCHANGED <<nextSession, sessionKey, shutdown, reconnectTask, listeners, messageId, wireVars, entityVars, pending,
                   disconnectRet, notified, call, connections>>

\* the handshake fails: connect() raises through get_connection, which
\* leaves the session registered; async_setup_entry lines 91-93 return
GetConnectionFail(e) ==
    LET s == entry[e].held IN
    /\ entry[e].pc = "connecting"
    /\ HandshakeFails(s)
    /\ \E k \in FailureKinds : connectCall' = [connectCall EXCEPT ![s] = ConnectError(k)]
    /\ lock' = 0
    /\ entry' = [entry EXCEPT ![e] = SetupFailed]
    /\ UNCHANGED <<nextSession, sessionKey, shutdown, reconnectTask, listeners, messageId, wireVars, entityVars, pending,
                   disconnectRet, notified, call, connections>>

\* light.async_unload_entry, lines 126-135, calls remove_connection,
\* lines 54-63: the session registered under the entry's key, if any, is
\* disconnected and deleted
RemoveConnection(e) ==
    LET k == EntryKey(e) IN
    /\ entry[e].pc \in {"loaded", "setup_failed"}
    /\ LockFree
    /\ IF connections[k] # 0
       THEN /\ \E r \in BOOLEAN : DisconnectEffect({connections[k]}, r)
            /\ connections' = Unregistered(connections, k)
       ELSE UNCHANGED <<shutdown, connected, reconnectTask, listenTask, listeners, socks,
                        disconnectRet, connections>>
    /\ entry' = [entry EXCEPT ![e] = [pc |-> "platform_unloaded", held |-> 0, added |-> FALSE]]
    /\ UNCHANGED <<nextSession, sessionKey, ws, messageId, wireVars, entityVars, pending, connectCall, notified, call, lock>>

\* the sessions cleanup_all disconnects (line 68)
CleanupTargets(conns) == {conns[k] : k \in Keys} \ {0}

\* __init__.async_unload_entry, lines 33-43: once the platform is unloaded,
\* cleanup_all (light.py lines 65-71) disconnects every registered session
\* and clears the registry
CleanupAll(e) ==
    /\ entry[e].pc = "platform_unloaded"
    /\ LockFree
    /\ \E r \in BOOLEAN : DisconnectEffect(CleanupTargets(connections), r)
    /\ connections' = [k \in Keys |-> 0]
    /\ entry' = [entry EXCEPT ![e] = [pc |-> "unloaded", held |-> 0, added |-> FALSE]]
    /\ UNCHANGED <<nextSession, sessionKey, ws, messageId, wireVars, entityVars, pending, connectCall, notified, call, lock>>

InitRegistry ==
    /\ nextSession = 0
    /\ sessionKey = [s \in Sessions |-> 0]
    /\ shutdown = [s \in Sessions |-> FALSE]
    /\ connected = [s \in Sessions |-> FALSE]
    /\ ws = [s \in Sessions |-> 0]
    /\ socks = [s \in Sessions |-> [k \in SockIds |-> "unused"]]
    /\ listenTask = [s \in Sessions |-> NoTask]
    /\ reconnectTask = [s \in Sessions |-> NoTask]
    /\ listeners = [s \in Sessions |-> <<>>]
    /\ messageId = [s \in Sessions |-> 0]
    /\ pending = [s \in Sessions |-> [i \in MsgIds |-> 0]]
    /\ connectCall = [s \in Sessions |-> "none"]
    /\ disconnectRet = [s \in Sessions |-> "none"]
    /\ notified = [s \in Sessions |-> NoCalls]
    /\ call = [c \in Callers |-> NoCall]
    /\ outbox = [s \in Sessions |-> <<>>]
    /\ sendRet = [s \in Sessions |-> "none"]
    /\ light = [l \in ListenerIds |-> NoLight]
    /\ fanout = [s \in Sessions |-> NoFanOut]
    /\ legacy = NewLegacy
    /\ connections = [k \in Keys |-> 0]
    /\ lock = 0
    /\ entry = [e \in Entries |-> [pc |-> "unloaded", held |-> 0, added |-> FALSE]]

\* The registry, the config entries that set up and unload, and the
\* sessions the registry has created
NextRegistry ==
    \/ \E e \in Entries :
        \/ GetConnection(e) \/ GetConnectionOk(e) \/ GetConnectionFail(e)
        \/ RemoveConnection(e) \/ CleanupAll(e)
    \/ \E s \in Sessions : SessionStep(s)

SpecRegistry == InitRegistry /\ [][NextRegistry]_vars

\* ---- properties ---------------------------------------------------------
\* When connect() installs a socket or the reader loop's exit schedules a
\* reconnection, the task the session held before has finished: a session
\* never has two reader tasks or two reconnect tasks, and its reader and its
\* reconnector never run side by side.
OneTaskEach ==
    \A s \in Sessions :
        /\ (connectCall[s] = "handshake" \/ TaskRunning(reconnectTask[s]))
              => ~TaskRunning(listenTask[s])
        /\ connectCall[s] = "handshake" => reconnectTask[s].pc = "none"

\* C1: with any number of get_devices requests in flight on one session and
\* frames arriving in any order, a request's future is only ever resolved
\* with the envelope whose id is the id the request sent, and the list the
\* call returns is taken from that envelope.
C1_ResolvedByOwnId ==
    \A c \in Callers :
        /\ call[c].fut.state = "done" => call[c].fut.result.id = call[c].id
        /\ call[c].from # 0 => call[c].from = call[c].id

\* two requests in flight on one session, the later one answered first
C1_Witness ==
    \E c1, c2 \in Callers :
        /\ c1 # c2 /\ call[c1].s = call[c2].s
        /\ call[c1].pc = "wait" /\ call[c1].fut.state = "pending"
        /\ call[c2].pc = "wait" /\ call[c2].fut.state = "done"
        /\ call[c2].id > call[c1].id

BeginsAttempt(s) ==
    /\ reconnectTask'[s].pc = "connect"
    /\ reconnectTask'[s].attempt # reconnectTask[s].attempt

\* a step in which a reconnect task is created
SchedulesReconnect(s) ==
    reconnectTask'[s].pc = "new" /\ reconnectTask[s].pc # "new"

\* C3: once disconnect() has been called on a session, no step creates a
\* reconnect task for it and no step begins a connect attempt of its
\* reconnector, whatever the reader loop and the reconnector were doing.
C3_NoReconnectAfterDisconnect ==
    [][\A s \in Sessions :
          shutdown[s] => ~BeginsAttempt(s) /\ ~SchedulesReconnect(s)]_vars

\* disconnect() was called while the reconnector slept between two attempts
C3_Witness ==
    \E s \in Sessions :
        /\ shutdown[s]
        /\ reconnectTask[s].pc = "sleep" /\ reconnectTask[s].cancel
        /\ reconnectTask[s].attempt >= 1

\* a step in which an attempt of the reconnector succeeds
ReconnectSucceeds(s) ==
    /\ reconnectTask[s].pc = "connect"
    /\ reconnectTask'[s].pc = "done" /\ reconnectTask'[s].attempt >= 1

\* C4: when an attempt of the reconnector succeeds, after any number of
\* failed ones below max_reconnect_attempts, the session is connected, has a
\* reader task on an open socket, and has the listeners it had; no step of
\* the reconnector changes the listeners.
C4_ReconnectKeepsListeners ==
    [][\A s \in Sessions :
          /\ ReconnectSucceeds(s) =>
                /\ reconnectTask'[s].attempt <= max_reconnect_attempts
                /\ connected'[s] /\ WsState(s)' = "open"
                /\ TaskRunning(listenTask'[s])
          /\ (reconnectTask'[s] # reconnectTask[s] /\ shutdown'[s] = shutdown[s])
                => listeners'[s] = listeners[s]]_vars

\* after failed attempts and a successful one, an event received on the new
\* socket has been fanned out to the listeners
C4_Witness ==
    \E s \in Sessions :
        /\ reconnectTask[s].pc = "done" /\ reconnectTask[s].attempt >= 2
        /\ connected[s] /\ listenTask[s].pc = "recv"
        /\ notified[s].sock = ws[s] /\ ws[s] >= 2
        /\ Len(notified[s].calls) >= 2

\* C5: a reconnector that has run out of attempts has made exactly
\* max_reconnect_attempts of them, and leaves the session not connected,
\* without reader task; from then on it makes no further attempt and the
\* session stays not connected.
C5_ExhaustedAfterMaxAttempts ==
    /\ [](\A s \in Sessions :
             reconnectTask[s].pc = "exhausted" =>
                 /\ reconnectTask[s].attempt = max_reconnect_attempts
                 /\ ~connected[s] /\ ~TaskRunning(listenTask[s]))
    /\ [][\A s \in Sessions :
             reconnectTask[s].pc = "exhausted" =>
                 /\ reconnectTask'[s] = reconnectTask[s]
                 /\ ~connected'[s]]_vars

\* the reconnector has given up
C5_Witness ==
    \E s \in Sessions :
        /\ reconnectTask[s].pc = "exhausted"
        /\ ~shutdown[s] /\ ws[s] # 0

\* a get_devices request of session s whose future nobody has resolved
Outstanding(c, s) ==
    call[c].s = s /\ call[c].pc = "wait" /\ call[c].fut.state = "pending"

\* C6: once disconnect() has been called on a session, no get_devices
\* caller is still waiting on a slot of that session and its
\* pending-response table is empty.
C6_DisconnectFailsPending ==
    \A s \in Sessions :
        shutdown[s] =>
            /\ \A c \in Callers : ~Outstanding(c, s)
            /\ \A i \in MsgIds : pending[s][i] = 0

\* C7: once the reader loop of a session has ended on a socket failure, no
\* get_devices caller is still waiting on a slot of that session.
C7_ReaderExitFailsPending ==
    \A s \in Sessions :
        (listenTask[s].pc = "done" /\ ~shutdown[s]) =>
            \A c \in Callers : ~Outstanding(c, s)

\* C8: in the state a disconnect() call leaves, a further disconnect() call
\* would write to every field the value the field already has; and no
\* disconnect() call raises to its caller, whether or not closing the
\* socket fails.
C8_DisconnectIdempotent ==
    [][\A s \in Sessions : \A r \in BOOLEAN :
          Disconnect(s, r) =>
              /\ AfterDisconnect(s)' = SessionFields(s)'
              /\ disconnectRet'[s] = "returned"]_vars

\* disconnect() has returned on a session that was connected and reading
C8_Witness ==
    \E s \in Sessions :
        /\ shutdown[s] /\ disconnectRet[s] = "returned"
        /\ listenTask[s].pc = "recv" /\ listenTask[s].cancel
        /\ WsState(s) = "closed"

\* a session that is connected or holds an open socket
Live(s) == connected[s] \/ WsState(s) = "open"

\* C9 as stated: whatever the interleaving of the get_connection calls for
\* one key, two sessions of the key are never live at the same time, and
\* all the entries that were handed a session for the key and have not
\* released it hold the same session.
C9_SameSessionForAll ==
    /\ \A s1, s2 \in Sessions :
          (sessionKey[s1] # 0 /\ sessionKey[s1] = sessionKey[s2] /\ Live(s1) /\ Live(s2))
              => s1 = s2
    /\ \A e1, e2 \in Entries :
          (EntryKey(e1) = EntryKey(e2) /\ entry[e1].pc = "loaded" /\ entry[e2].pc = "loaded")
              => entry[e1].held = entry[e2].held

\* C9, amended: at any time every session that is connected or holds an
\* open socket is the one registered under its key, so there are never two
\* live sessions for one key; and a get_connection call hands out the
\* session registered under the key, connected, when it returns.
C9_OneLiveSessionPerKey ==
    /\ [](\A s \in Sessions :
             Live(s) => sessionKey[s] # 0 /\ connections[sessionKey[s]] = s)
    /\ [][\A e \in Entries :
             (entry'[e].pc = "loaded" /\ entry[e].pc # "loaded") =>
                 /\ entry'[e].held = connections'[EntryKey(e)]
                 /\ connected'[entry'[e].held]]_vars

\* two entries of one key hold different sessions: the first one's lost its
\* connection and was replaced when the second entry asked
C9_Witness ==
    \E e1, e2 \in Entries :
        /\ EntryKey(e1) = EntryKey(e2)
        /\ entry[e1].pc = "loaded" /\ entry[e2].pc = "loaded"
        /\ entry[e1].held # entry[e2].held
        /\ Live(entry[e2].held) /\ ~Live(entry[e1].held)
        /\ connections[EntryKey(e1)] = entry[e2].held

\* C10: while an entry that was handed a session has not released it, the
\* session is still registered under the entry's key and has not been shut
\* down.
C10_KeptUntilLastRelease ==
    \A e \in Entries :
        entry[e].pc = "loaded" =>
            /\ connections[EntryKey(e)] = entry[e].held
            /\ ~shutdown[entry[e].held]

\* a step in which get_connection, called for entry e, returns a session
HandsOut(e) == entry[e].pc # "loaded" /\ entry'[e].pc = "loaded"

Active(t) == TaskRunning(t) /\ ~t.cancel

\* C12: once disconnect() has returned, whatever the session was doing when
\* it was called, the session has no open socket and neither its reader
\* task nor its reconnect task is active (disconnect() cancels them and does
\* not wait for them: each has finished or will end at its next step, which
\* is the only step it takes); and once the reconnection attempts are
\* exhausted the session has no open socket, no reader task and no
\* reconnect task that runs.
C12_NoActivityLeft ==
    /\ [](\A s \in Sessions :
             disconnectRet[s] = "returned" =>
                 /\ WsState(s) # "open"
                 /\ \A k \in SockIds : socks[s][k] # "open"
                 /\ ~Active(listenTask[s]) /\ ~Active(reconnectTask[s]))
    /\ [](\A s \in Sessions :
             reconnectTask[s].pc = "exhausted" =>
                 /\ \A k \in SockIds : socks[s][k] # "open"
                 /\ ~TaskRunning(listenTask[s]))
    /\ [][\A s \in Sessions :
             /\ (listenTask[s].cancel /\ listenTask'[s] # listenTask[s])
                    => ~TaskRunning(listenTask'[s])
             /\ (reconnectTask[s].cancel /\ reconnectTask'[s] # reconnectTask[s])
                    => ~TaskRunning(reconnectTask'[s])]_vars

\* disconnect() has returned on a session whose reconnector was awaiting the
\* handshake of its second attempt
C12_Witness ==
    \E s \in Sessions :
        /\ disconnectRet[s] = "returned"
        /\ reconnectTask[s].pc = "connect" /\ reconnectTask[s].cancel
        /\ reconnectTask[s].attempt = 2

\* the sockets of a session that are open
OpenSocks(s) == {k \in SockIds : socks[s][k] = "open"}

\* C13: a session never has two open sockets, and an open socket of a
\* session is the one self.ws refers to; when connect() installs a socket,
\* initially or in a reconnection attempt, no socket the session opened
\* before is still open.
C13_OneOpenSocket ==
    /\ [](\A s \in Sessions : OpenSocks(s) \subseteq {ws[s]})
    /\ [][\A s \in Sessions : ws'[s] # ws[s] => OpenSocks(s) = {}]_vars

\* a reconnection attempt after a failed one has installed the session's
\* second socket, the first being closed
C13_Witness ==
    \E s \in Sessions :
        /\ ws[s] = 2 /\ OpenSocks(s) = {2} /\ socks[s][1] = "closed"
        /\ reconnectTask[s].pc = "done" /\ reconnectTask[s].attempt >= 2

\* C14: a future that has a result or was cancelled by its timeout is never
\* given another outcome: the call returns on the timeout branch exactly
\* when its future was cancelled and on the response branch exactly when the
\* reader resolved it; and the table holds no entry for the id once the
\* reader has resolved the slot or the call has taken its timeout branch.
C14_ResolvedOnce ==
    /\ [](\A c \in Callers :
             (call[c].fut.state = "done" \/ call[c].path = "timeout")
                 => pending[call[c].s][call[c].id] = 0)
    /\ [][\A c \in Callers :
             call[c].fut.state \in {"done", "cancelled"} =>
                 \/ call'[c].fut = call[c].fut
                 \/ /\ call'[c].pc = "ret"
                    /\ (call'[c].path = "timeout") <=> (call[c].fut.state = "cancelled")]_vars

\* the frame of a request arrived after the timer of the request had fired
\* and before get_devices went on: the reader took the entry out of the
\* table and left the cancelled future alone
C14_Witness ==
    \E c \in Callers :
        /\ call[c].pc = "wait" /\ call[c].fut.state = "cancelled"
        /\ pending[call[c].s][call[c].id] = 0
        /\ listenTask[call[c].s].pc = "recv"

\* C15: the ids of the messages a session has put on the wire, by
\* get_devices and send_command alike, are strictly increasing in send
\* order, hence pairwise distinct, over all the sockets the session has
\* had; and the counter never goes down.
C15_IdsIncrease ==
    /\ [](\A s \in Sessions : \A i, j \in 1..Len(outbox[s]) :
             i < j => outbox[s][i].id < outbox[s][j].id)
    /\ [][\A s \in Sessions : messageId'[s] >= messageId[s]]_vars

\* a get_devices request went out on the first socket and, after a
\* reconnection, a command on the second
C15_Witness ==
    \E s \in Sessions :
        /\ Len(outbox[s]) = 2
        /\ outbox[s][1].sock = 1 /\ outbox[s][1].method = "getDevicesIntegration"
        /\ outbox[s][2].sock = 2 /\ outbox[s][2].method = "updateParams"

\* the request of call c has timed out: the call has returned on its
\* timeout branch, or the timer has cancelled its future and the call has
\* not gone on yet
TimedOut(c) ==
    \/ call[c].pc = "ret" /\ call[c].path = "timeout"
    \/ call[c].pc = "wait" /\ call[c].fut.state = "cancelled"

\* a step in which the reader of session s handles a frame with id n
HandlesId(s, n) ==
    /\ listenTask[s].pc = "recv"
    /\ notified'[s].kind = "json" /\ notified'[s].id = n
    /\ \E f \in {g \in ResponseFrames : g.id = n} : ListenRecv(s, f)

\* C16: when the reader handles a response frame whose request has timed
\* out, the reader loop goes on reading, no entry of the table under
\* another id changes, no call changes, and the table does not change at
\* all once the call has returned.
C16_LateFrameHarmless ==
    [][\A c \in Callers :
          (TimedOut(c) /\ HandlesId(call[c].s, call[c].id)) =>
              LET s == call[c].s IN
              /\ listenTask'[s] = listenTask[s] /\ connected'[s]
              /\ reconnectTask'[s] = reconnectTask[s]
              /\ \A i \in MsgIds \ {call[c].id} : pending'[s][i] = pending[s][i]
              /\ call' = call
              /\ call[c].pc = "ret" => pending' = pending]_vars

\* the frame of a request that had timed out was handled while another
\* request was waiting in the table
C16_Witness ==
    \E s \in Sessions : \E c1, c2 \in Callers :
        /\ notified[s].kind = "json" /\ notified[s].late
        /\ call[c1].s = s /\ call[c1].id = notified[s].id
        /\ call[c1].pc = "ret" /\ call[c1].path = "timeout"
        /\ Outstanding(c2, s) /\ pending[s][call[c2].id] = c2
        /\ listenTask[s].pc = "recv"

\* ---- C17 ----------------------------------------------------------------
\* C17: when the reader handles a text that is not parseable (plain, or one
\* that reads like a response to a pending request or like a device event),
\* the reader loop goes on reading, no listener is invoked, no entity
\* changes, and the pending-response table and every future stay as they
\* were.
C17_MalformedDiscarded ==
    [][\A s \in Sessions :
          listenTask[s].pc = "recv" =>
              \A f \in {g \in TextFrames \cup TruncatedFrames : g.kind = "malformed"} :
                  ListenRecv(s, f) =>
                      /\ listenTask'[s] = listenTask[s] /\ connected'[s]
                      /\ reconnectTask' = reconnectTask
                      /\ notified'[s].calls = <<>>
                      /\ light' = light
                      /\ pending' = pending /\ call' = call]_vars

\* an unparseable text naming the id of a request that is waiting was
\* handled on a session with a listener, and the request still waits
C17_Witness ==
    \E s \in Sessions : \E c \in Callers :
        /\ listenTask[s].pc = "recv" /\ Len(listeners[s]) > 0
        /\ notified[s].kind = "malformed" /\ notified[s].id # 0
        /\ pending[s][notified[s].id] = c
        /\ call[c].pc = "wait" /\ call[c].fut.state = "pending"

\* ---- C18 ----------------------------------------------------------------
\* entity l is subscribed to session s
Subscribed(l, s) == light[l].made /\ light[l].ws = s /\ InSeq(l, listeners[s])

\* C18: when the reader of a session handles a device event with the record
\* of device d, every entity subscribed to the session whose unique id is d
\* takes the record's online flag and, if present, its lighting flag, and
\* writes its state exactly if that changed it; every entity with another
\* unique id, and every entity not subscribed, stays as it was and writes
\* no state.
C18_OnlyMatchingEntities ==
    [][\A s \in Sessions :
          (/\ listenTask[s].pc = "recv" /\ notified'[s].calls # <<>>
           /\ (notified'[s] # notified[s] \/ light' # light)) =>
              LET rec == notified'[s].calls[1][2] IN
              \A f \in {g \in RecordEvents : g.data.devs[1] = rec} :
                  ListenRecv(s, f) =>
                      \A l \in ListenerIds :
                          IF Subscribed(l, s) /\ light[l].uid = rec.id
                          THEN /\ light'[l].available = rec.online
                               /\ light'[l].is_on = IF rec.lighting = "absent"
                                                      THEN light[l].is_on
                                                      ELSE rec.lighting = "on"
                               /\ light'[l].uid = light[l].uid /\ light'[l].ws = light[l].ws
                               /\ l \in notified'[s].wrote <=> light'[l] # light[l]
                          ELSE /\ light'[l] = light[l]
                               /\ l \notin notified'[s].wrote]_vars

\* two entities with different unique ids were notified of one device
\* event, and exactly one of them wrote its state
C18_Witness ==
    \E s \in Sessions : \E l1, l2 \in ListenerIds :
        /\ Subscribed(l1, s) /\ Subscribed(l2, s)
        /\ light[l1].uid # light[l2].uid
        /\ listenTask[s].pc = "recv"
        /\ Len(notified[s].calls) = 2
        /\ notified[s].calls[1][2].id = light[l1].uid
        /\ notified[s].wrote = {l1}

\* ---- C19 ----------------------------------------------------------------
\* C19: when the handshake of connect() fails, the call raises an Exception
\* whose text tells which of timeout, invalid URI, status 401, another
\* status and any other error it was (no two of them share a text), the
\* session is not connected, and its reader task and reconnect task are as
\* they were, none of them running; a failed attempt of the reconnect task
\* likewise leaves the session not connected and starts no reader.
C19_ConnectFailure ==
    [][\A s \in Sessions :
          /\ (connectCall[s] = "handshake" /\ connectCall'[s] \notin {"handshake", "returned"}) =>
                /\ \E k \in FailureKinds :
                      /\ connectCall'[s] = ConnectError(k)
                      /\ \A k2 \in FailureKinds \ {k} : ConnectError(k2) # ConnectError(k)
                /\ ~connected'[s]
                /\ listenTask'[s] = listenTask[s] /\ ~TaskRunning(listenTask'[s])
                /\ reconnectTask'[s] = reconnectTask[s] /\ ~TaskRunning(reconnectTask'[s])
          /\ (reconnectTask[s].pc = "connect" /\ ReconnectFail(s)) =>
                /\ ~connected'[s]
                /\ listenTask'[s] = listenTask[s] /\ ~TaskRunning(listenTask'[s])]_vars

\* a connect() call has failed on status 401
C19_Witness ==
    \E s \in Sessions :
        /\ connectCall[s] = ConnectError("InvalidStatusCode401")
        /\ ~connected[s] /\ listenTask[s].pc = "none" /\ reconnectTask[s].pc = "none"

\* ---- C20 ----------------------------------------------------------------
\* the entities constructed on session s
LightsOf(s) == {l \in ListenerIds : light[l].made /\ light[l].ws = s}

\* C20: an entity reports available only if its session is connected and
\* the last record it took said online; while the reader of a session is
\* not running (never started, or exited) every entity of the session is
\* unavailable, the reader's exit on a failed recv() makes them so, and a
\* reconnection attempt that succeeds makes available every entity whose
\* last record said online.
C20_Availability ==
    /\ [](\A l \in ListenerIds :
            Available(l) => light[l].available /\ connected[light[l].ws])
    /\ [](\A s \in Sessions :
            ~TaskRunning(listenTask[s]) => \A l \in LightsOf(s) : ~Available(l))
    /\ [][\A s \in Sessions :
            /\ (listenTask[s].pc = "recv" /\ ListenConnectionClosed(s)) =>
                  \A l \in LightsOf(s) : ~Available(l)'
            /\ (reconnectTask[s].pc = "connect" /\ ReconnectOk(s)) =>
                  \A l \in LightsOf(s) : light[l].available => Available(l)']_vars

\* an entity is available on a session whose reconnect task has succeeded
C20_Witness ==
    \E l \in ListenerIds :
        /\ Available(l)
        /\ reconnectTask[light[l].ws].pc = "done"
        /\ reconnectTask[light[l].ws].attempt > 0

\* ---- C21 ----------------------------------------------------------------
\* C21: when the handshake of the session get_connection has constructed
\* for an entry fails, async_setup_entry returns (it does not raise), the
\* entry has added no entity and holds no session, and no entity and no
\* listener has come into being.
C21_SetupFailureReturns ==
    [][\A e \in Entries :
          (entry[e].pc = "connecting" /\ GetConnectionFail(e)) =>
              /\ entry'[e].pc = "setup_failed"
              /\ ~entry'[e].added /\ entry'[e].held = 0
              /\ light' = light /\ listeners' = listeners]_vars

\* the setup of an entry has ended on a failed handshake, the failure
\* being the timeout
C21_Witness ==
    \E e \in Entries :
        /\ entry[e].pc = "setup_failed"
        /\ connections[EntryKey(e)] # 0
        /\ connectCall[connections[EntryKey(e)]] = ConnectError("TimeoutError")
        /\ ~connected[connections[EntryKey(e)]]

\* ---- C22 ----------------------------------------------------------------
\* C22: a reader task is created only by the step of connect() that
\* installs a socket, and that step finds the task the session held before
\* finished, so that no two reader tasks of a session run at any time; and
\* a frame is only ever taken by the reader task, waiting in
\* recv() and not cancelled, from the socket the session refers to: the
\* calls of get_devices and send_command take no frame, so that no socket
\* has two receive operations outstanding.
C22_OneReader ==
    [][\A s \in Sessions :
          /\ ws'[s] # ws[s] => ~TaskRunning(listenTask[s]) /\ listenTask'[s] = NewTask
          /\ (listenTask'[s].pc = "new" /\ listenTask[s].pc # "new") => ws'[s] # ws[s]
          /\ (notified'[s] # notified[s] /\ notified'[s] # NoCalls) =>
                /\ listenTask[s].pc = "recv" /\ ~listenTask[s].cancel
                /\ notified'[s].sock = ws[s] /\ WsState(s) = "open"
          /\ (outbox'[s] # outbox[s] \/ sendRet'[s] # sendRet[s]) =>
                listenTask'[s] = listenTask[s] /\ notified'[s] = notified[s]]_vars

\* the reader waits in recv() on the socket of a reconnection while a
\* get_devices call waits for its response and a send_command has returned
C22_Witness ==
    \E s \in Sessions : \E c \in Callers :
        /\ listenTask[s].pc = "recv" /\ ws[s] = 2 /\ WsState(s) = "open"
        /\ reconnectTask[s].pc = "done" /\ reconnectTask[s].attempt >= 1
        /\ call[c].pc = "wait" /\ call[c].s = s /\ call[c].fut.state = "pending"
        /\ sendRet[s] = "true"

\* ---- C23 ----------------------------------------------------------------
\* a step in which the reader task of session s ends
ReaderExits(s) == TaskRunning(listenTask[s]) /\ ~TaskRunning(listenTask'[s])

\* C23: a step in which the reader task of a session ends while
\* disconnect() has not been called creates one reconnect task, and the
\* reconnect task the session held before has finished by then; a reconnect
\* task is created by no other step.
C23_OneReconnectPerExit ==
    [][\A s \in Sessions :
          /\ (ReaderExits(s) /\ ~shutdown[s]) =>
                /\ reconnectTask'[s] = NewTask
                /\ ~TaskRunning(reconnectTask[s])
          /\ (reconnectTask'[s].pc = "new" /\ reconnectTask[s].pc # "new") =>
                ReaderExits(s) /\ ~shutdown[s]]_vars

\* the reader of the socket a reconnection installed has ended in its turn,
\* and a second reconnection is scheduled
C23_Witness ==
    \E s \in Sessions :
        /\ ~shutdown[s] /\ ws[s] = 2 /\ WsState(s) = "closed"
        /\ listenTask[s].pc = "done" /\ ~connected[s]
        /\ reconnectTask[s] = NewTask

\* ---- C24 ----------------------------------------------------------------
\* C24: when the reader handles a frame whose id is a key of the
\* pending-response table, the entry is removed, its future, if it was
\* pending, has the whole frame as its result, no listener is invoked and
\* no entity changes, also when the frame has the method and data of a
\* device event.
C24_ResponseBeforeEvent ==
    [][\A s \in Sessions :
          (/\ listenTask[s].pc = "recv"
           /\ notified'[s].kind = "json" /\ notified'[s].id # 0
           /\ pending[s][notified'[s].id] # 0) =>
              LET n == notified'[s].id
                  c == pending[s][n] IN
              \A f \in {g \in ResponseFrames \cup IdEvents : g.id = n} :
                  ListenRecv(s, f) =>
                      /\ pending'[s][n] = 0
                      /\ call[c].fut.state = "pending" =>
                            call'[c].fut = [state |-> "done", result |-> f]
                      /\ notified'[s].calls = <<>>
                      /\ light' = light]_vars

\* a waiting request was resolved with a frame that reads like a device
\* event, on a session with a listener, and no listener was invoked
C24_Witness ==
    \E c \in Callers :
        LET s == call[c].s IN
        /\ call[c].pc = "wait" /\ call[c].fut.state = "done"
        /\ call[c].fut.result.method = "getDevice" /\ call[c].fut.result.data.t = "dict"
        /\ Len(listeners[s]) > 0
        /\ notified[s].id = call[c].id /\ notified[s].calls = <<>>

\* ---- C27 ----------------------------------------------------------------
\* a step in which the reader of session s handles a frame with id n, be it
\* a response or a frame that reads like a device event
HandlesLate(s, n) ==
    /\ listenTask[s].pc = "recv"
    /\ notified'[s].kind = "json" /\ notified'[s].id = n
    /\ \E f \in {g \in ResponseFrames \cup IdEvents : g.id = n} : ListenRecv(s, f)

\* C27: when the reader handles a frame that carries the id of a request
\* whose call has returned on its timeout, no listener is invoked and no
\* entity changes, whatever the method and data of the frame.
C27_LateFrameDropped ==
    [][\A c \in Callers :
          (/\ call[c].pc = "ret" /\ call[c].path = "timeout"
           /\ HandlesLate(call[c].s, call[c].id)) =>
              /\ notified'[call[c].s].calls = <<>>
              /\ light' = light]_vars

\* ---- C25 ----------------------------------------------------------------
\* the invocations of listener l among calls
CallsOf(calls, l) == SelectSeq(calls, LAMBDA x : x[1] = l)

\* every listener of ls is invoked once per record of devs, in list order,
\* and nobody else is invoked
OncePerRecord(calls, ls, devs) ==
    /\ Len(calls) = Len(ls) * Len(devs)
    /\ \A i \in 1..Len(ls) :
          CallsOf(calls, ls[i]) = [j \in 1..Len(devs) |-> <<ls[i], devs[j]>>]

\* the frames line 286, 289-292 or 306 extracts device records from: an
\* object under method getDevice or under a method that is neither
\* getDevices nor updateParams, a list under method getDevices
Extracted(f) ==
    \/ f.method = "getDevices" /\ f.data.t = "list"
    \/ f.method \notin {"getDevices", "updateParams"} /\ f.data.t = "dict"

\* a step in which the reader of session s handles a frame that is an
\* object, on a session with a listener or with an invocation made
HandlesObject(s) ==
    /\ listenTask[s].pc = "recv"
    /\ notified'[s].kind = "json" /\ notified'[s] # notified[s]
    /\ listeners[s] # <<>> \/ notified'[s].calls # <<>>

\* the event frames the step may have handled: those whose first record is
\* the one of the first invocation, if there was an invocation
HandledEvents(s) ==
    IF notified'[s].calls = <<>> THEN EventFrames \cup PairEvents
    ELSE {f \in EventFrames \cup PairEvents :
             f.data.devs # <<>> /\ f.data.devs[1] = notified'[s].calls[1][2]}

\* C25 as stated: whatever its method, an event frame with a list of k
\* records, or with a single record, has every registered listener invoked
\* once per record, in list order.
C25_FanOutOfAnyEvent ==
    [][\A s \in Sessions :
          HandlesObject(s) =>
              \A f \in HandledEvents(s) :
                  ListenRecv(s, f) =>
                      OncePerRecord(notified'[s].calls, listeners[s], f.data.devs)]_vars

\* C25: an event frame of method getDevices with a list of k records, and
\* an event frame with a single record as an object under method getDevice
\* or under a method that is neither getDevices nor updateParams, has every
\* registered listener invoked once per record, in list order; any other
\* event frame has no listener invoked.
C25_FanOutByMethod ==
    [][\A s \in Sessions :
          HandlesObject(s) =>
              \A f \in HandledEvents(s) :
                  ListenRecv(s, f) =>
                      IF Extracted(f)
                      THEN OncePerRecord(notified'[s].calls, listeners[s], f.data.devs)
                      ELSE notified'[s].calls = <<>>]_vars

\* two listeners were each invoked twice for a list of two records: first
\* both with the first record, then both with the second
C25_Witness ==
    \E s \in Sessions :
        /\ Len(listeners[s]) = 2 /\ Len(notified[s].calls) = 4
        /\ notified[s].calls[1][2] = notified[s].calls[2][2]
        /\ notified[s].calls[3][2] = notified[s].calls[4][2]
        /\ notified[s].calls[1][2] # notified[s].calls[3][2]
        /\ notified[s].calls[1][1] # notified[s].calls[2][1]

\* ---- C26 ----------------------------------------------------------------
\* C26: when a fan-out ends, every listener that was registered when it
\* began and is registered still has been invoked exactly once with the
\* event, whatever was added to or removed from the listener list while
\* the reader waited inside a listener.
C26_FanOutUnderMutation ==
    [][\A s \in Sessions :
          (listenTask[s].pc = "listener" /\ listenTask'[s].pc = "recv") =>
              \A l \in ListenerIds :
                  (InSeq(l, fanout[s].start) /\ InSeq(l, listeners[s])) =>
                      Len(CallsOf(notified'[s].calls, l)) = 1]_vars

\* ---- C28 ----------------------------------------------------------------
\* a get_devices() call that waits for a response which has not come
Stalled(c, s) ==
    call[c].pc = "wait" /\ call[c].s = s /\ call[c].fut.state = "pending"

\* the response frames that answer another id than n
OtherResponses(n) == {f \in ResponseFrames : f.id # n}

C29_CleanupOnlyWhenLast ==
    [][\A e \in Entries :
          (entry[e].pc = "platform_unloaded" /\ entry'[e].pc = "unloaded") =>
              \A o \in Entries \ {e} :
                  (entry[o].pc = "loaded" /\ entry[o].held # 0) =>
                      LET s == entry[o].held IN
                      /\ \A k \in Keys : connections[k] = s => connections'[k] = s
                      /\ shutdown'[s] = shutdown[s]
                      /\ connected'[s] = connected[s]
                      /\ ws'[s] = ws[s]]_vars

\* ---- C30 ----------------------------------------------------------------
\* C30: in the legacy session, the reconnect tasks begin at most
\* max_reconnect_attempts connect attempts after a connection loss while no
\* attempt succeeds, and the delay slept before attempt number k, counting
\* from 0, is reconnect_delay * 2^k.
C30_LegacyBoundedBackoff ==
    /\ legacy.made <= legacy_max_reconnect_attempts
    /\ legacy.made > 0 => legacy.delay = legacy_reconnect_delay * 2 ^ (legacy.made - 1)

\* ---- C31 ----------------------------------------------------------------
\* C31: in the legacy session, once disconnect() has been called there is no
\* reconnect task other than one that disconnect() cancelled and that has
\* not yet ended, and no connect attempt is under way outside such a task.
C31_LegacyNoReconnectAfterDisconnect ==
    legacy.closed =>
        /\ legacy.task.pc \in {"sleep", "connect"} => legacy.task.cancel
        /\ legacy.conn # "none" => legacy.task.cancel

\* ---- C32 ----------------------------------------------------------------
\* C32: whenever a get_devices call has returned, the pending-response table
\* of its session has no entry for the id the call allocated.
C32_NoEntryAfterReturn ==
    \A c \in Callers :
        (call[c].pc = "ret" /\ call[c].id # 0) => pending[call[c].s][call[c].id] = 0

\* ---- C33 ----------------------------------------------------------------
\* C33: once disconnect() has been called on a session, no step sets its
\* connected flag, gives it another socket or opens a socket for it; this
\* holds as well when its reconnect task was inside the handshake of
\* connect() at the time of the call.
C33_DisconnectIsFinal ==
    [][\A s \in Sessions :
          shutdown[s] =>
              /\ ~connected'[s]
              /\ ws'[s] = ws[s]
              /\ \A k \in SockIds : socks'[s][k] = "open" => socks[s][k] = "open"]_vars

\* disconnect() has run and returned while the reconnect task awaited the
\* handshake of connect(): the task is cancelled and has not yet ended
C33_Witness ==
    \E s \in Sessions :
        /\ shutdown[s] /\ disconnectRet[s] = "returned"
        /\ reconnectTask[s].pc = "connect" /\ reconnectTask[s].cancel
        /\ ~connected[s]

\* ---- C34 ----------------------------------------------------------------
\* a task that runs and has not been cancelled
Alive(task) == TaskRunning(task) /\ ~task.cancel

\* C34: when the probe of the configuration form has ended, with any
\* outcome, its session has no open socket and no reader or reconnect task
\* that runs uncancelled; and the entry is created only after a connect()
\* that returned and a list of devices that is not empty.
C34_ProbeLeavesNothing ==
    \A s \in Sessions :
        ProbeOutcome(s) # "none" =>
            /\ \A k \in SockIds : socks[s][k] # "open"
            /\ ~Alive(listenTask[s]) /\ ~Alive(reconnectTask[s])
            /\ ProbeOutcome(s) = "create_entry" =>
                   /\ connectCall[s] = "returned"
                   /\ \E c \in Callers : ProbeListed(s, c) /\ call[c].value # <<>>

\* ---- C35 ----------------------------------------------------------------
\* a turn_on or turn_off call of entity l is made in this step
Commands(l) == light[l].made /\ light'[l].made /\ light'[l].cmd.flip # light[l].cmd.flip

\* C35: a turn_on or turn_off call whose send_command reports failure leaves
\* the entity's on/off flag and its brightness, colour and effect as they
\* were and writes no state, and it fails whenever the session is not
\* connected, has no socket or the write fails; on a session that is not
\* connected or has no socket nothing is sent and no id is taken.
C35_FailedCommandChangesNothing ==
    [][\A l \in ListenerIds :
          Commands(l) =>
              LET s == light[l].ws IN
              /\ (~connected[s] \/ ws[s] = 0 \/ WsState(s) # "open") => ~light'[l].cmd.ok
              /\ ~light'[l].cmd.ok =>
                    /\ light'[l].is_on = light[l].is_on
                    /\ light'[l].attrs = light[l].attrs
                    /\ light'[l].available = light[l].available
                    /\ ~light'[l].cmd.wrote
                    /\ sendRet'[s] = "false"
                    /\ outbox'[s] = outbox[s]
              /\ (~connected[s] \/ ws[s] = 0) =>
                    outbox'[s] = outbox[s] /\ messageId'[s] = messageId[s]]_vars

\* an entity that a turn_on call switched on and gave a brightness has made
\* a later call that failed on its session, which is not connected
C35_Witness ==
    \E l \in ListenerIds :
        /\ light[l].made /\ light[l].attrs["brightness"] = "set" /\ light[l].is_on
        /\ ~light[l].cmd.ok /\ ~light[l].cmd.flip /\ ~light[l].cmd.wrote
        /\ ~connected[light[l].ws]
        /\ sendRet[light[l].ws] = "false"

\* ---- C36 ----------------------------------------------------------------
\* C36: when the fan-out of an event in which a listener raised ends, every
\* listener registered when it began has been invoked exactly once with the
\* event, the reader is back at recv(), and neither the connected flag nor
\* the reconnect task has changed.
C36_RaisingListenerIsolated ==
    [][\A s \in Sessions :
          (listenTask[s].pc = "listener" /\ listenTask'[s].pc # "listener"
              /\ fanout'[s].raised # {}) =>
              /\ \A l \in ListenerIds :
                    InSeq(l, fanout[s].start) => Len(CallsOf(notified'[s].calls, l)) = 1
              /\ listenTask'[s].pc = "recv" /\ ~listenTask'[s].cancel
              /\ connected'[s] = connected[s]
              /\ reconnectTask'[s] = reconnectTask[s]]_vars

\* the first of two listeners raised, the second was invoked after it, and
\* the reader is at recv() on its open socket
C36_Witness ==
    \E s \in Sessions :
        /\ Len(listeners[s]) = 2
        /\ Len(notified[s].calls) = 2
        /\ notified[s].calls[1][1] \in fanout[s].raised
        /\ notified[s].calls[2][1] \notin fanout[s].raised
        /\ listenTask[s].pc = "recv" /\ WsState(s) = "open" /\ connected[s]
        /\ reconnectTask[s].pc = "none"

====
